---- MODULE Spec2Model ----
(***************************************************************************)
(* Sovereign Tasks plugin: the share-invite redemption workflow of         *)
(* src/routes/web/index.js (GET /share/accept) and the list, task and      *)
(* share handlers of src/routes/api/index.js, over the relational store    *)
(* (TaskList, Task, TaskListShareInvite) that both routers use.            *)
(*                                                                         *)
(* Every await of a handler is a point where other requests interleave:    *)
(* one action is one store operation together with the synchronous code    *)
(* that follows it up to the next await.                                   *)
(*                                                                         *)
(* Strings the code transforms (names, slugs, emails) are sequences of     *)
(* one-character strings; strings it only compares or copies (tokens,      *)
(* titles, messages) are TLA+ strings.  Time is counted in seconds (the    *)
(* code's milliseconds divided by 1000).                                   *)
(***************************************************************************)
EXTENDS Integers, Sequences, FiniteSets, TLC

VARIABLES
    lists,        \* committed TaskList rows
    tasks,        \* committed Task rows
    invites,      \* committed TaskListShareInvite rows
    nextListId,   \* autoincrement sequence of TaskList.id
    nextTaskId,   \* autoincrement sequence of Task.id
    now,          \* the wall clock read by new Date()
    req,          \* per redemption request: position and local variables
    tx,           \* per redemption request: uncommitted writes of its $transaction
    api,          \* per API request: position and local variables
    mailer        \* ctx.mailer, as the router was constructed with it

vars == <<lists, tasks, invites, nextListId, nextTaskId, now, req, tx, api, mailer>>

store == <<lists, tasks, invites>>

----------------------------------------------------------------------------
(* Bounds of the model *)

NumReq == 2          \* redemption requests per behaviour
MaxTicks == 1        \* clock advances per behaviour
NumApi == 2          \* API requests per behaviour
MaxNameLen == 3      \* characters of a list name

Requests == 1..NumReq

ApiRequests == 1..NumApi

----------------------------------------------------------------------------
(* null / undefined *)

NULL == [null |-> TRUE]

----------------------------------------------------------------------------
(* Characters and string functions *)

LowerLetters ==
    <<"a","b","c","d","e","f","g","h","i","j","k","l","m",
      "n","o","p","q","r","s","t","u","v","w","x","y","z">>

UpperLetters ==
    <<"A","B","C","D","E","F","G","H","I","J","K","L","M",
      "N","O","P","Q","R","S","T","U","V","W","X","Y","Z">>

DigitChars == <<"0","1","2","3","4","5","6","7","8","9">>

Range(s) == { s[i] : i \in DOMAIN s }

\* String.prototype.toLowerCase on one character
LowerChar(c) ==
    IF c \in Range(UpperLetters)
      THEN LowerLetters[CHOOSE i \in DOMAIN UpperLetters : UpperLetters[i] = c]
      ELSE c

\* String.prototype.toLowerCase
toLowerCase(s) == [ i \in DOMAIN s |-> LowerChar(s[i]) ]

\* the class \s of the regular expressions, and the characters trim() removes
IsSpace(c) == c \in {" ", "\t", "\n"}

RECURSIVE TrimStart(_)
TrimStart(s) ==
    IF s # <<>> /\ IsSpace(Head(s)) THEN TrimStart(Tail(s)) ELSE s

RECURSIVE TrimEnd(_)
TrimEnd(s) ==
    IF s # <<>> /\ IsSpace(s[Len(s)])
      THEN TrimEnd(SubSeq(s, 1, Len(s) - 1))
      ELSE s

\* String.prototype.trim
trim(s) == TrimEnd(TrimStart(s))

\* .replace(/\s+/g, "-"): every maximal run of whitespace becomes one hyphen
RECURSIVE ReplaceSpaceRuns(_)
ReplaceSpaceRuns(s) ==
    IF s = <<>> THEN <<>>
    ELSE IF IsSpace(Head(s))
      THEN <<"-">> \o ReplaceSpaceRuns(TrimStart(s))
      ELSE <<Head(s)>> \o ReplaceSpaceRuns(Tail(s))

\* the class [a-z0-9-]
IsSlugChar(c) == c \in Range(LowerLetters) \cup Range(DigitChars) \cup {"-"}

\* .replace(/[^a-z0-9-]/g, "-"): every other character becomes a hyphen
ReplaceNonSlugChars(s) ==
    [ i \in DOMAIN s |-> IF IsSlugChar(s[i]) THEN s[i] ELSE "-" ]

\* .replace(/-+/g, "-"): every maximal run of hyphens becomes one hyphen
RECURSIVE CollapseHyphens(_)
CollapseHyphens(s) ==
    IF s = <<>> THEN <<>>
    ELSE IF Head(s) = "-" /\ Len(s) > 1 /\ s[2] = "-"
      THEN CollapseHyphens(Tail(s))
      ELSE <<Head(s)>> \o CollapseHyphens(Tail(s))

\* .replace(/^-|-$/g, ""): one hyphen at the start and one at the end go
StripEdgeHyphens(s) ==
    LET a == IF s # <<>> /\ Head(s) = "-" THEN Tail(s) ELSE s
    IN  IF a # <<>> /\ a[Len(a)] = "-" THEN SubSeq(a, 1, Len(a) - 1) ELSE a

\* the decimal digits of a number, as `${suffix}` prints it
RECURSIVE DecimalString(_)
DecimalString(n) ==
    IF n < 10 THEN <<DigitChars[n + 1]>>
    ELSE DecimalString(n \div 10) \o <<DigitChars[(n % 10) + 1]>>

\* `${baseSlug}-${suffix}`
SuffixedSlug(baseSlug, suffix) == baseSlug \o <<"-">> \o DecimalString(suffix)

\* sourceList.slug || (sourceList.name || "list")....  || "list"
BaseSlug(sourceList) ==
    LET name == IF sourceList.name # <<>> THEN sourceList.name
                ELSE <<"l","i","s","t">>
        derived == StripEdgeHyphens(CollapseHyphens(ReplaceNonSlugChars(
                       ReplaceSpaceRuns(toLowerCase(name)))))
    IN  IF sourceList.slug # <<>> THEN sourceList.slug
        ELSE IF derived # <<>> THEN derived
        ELSE <<"l","i","s","t">>

----------------------------------------------------------------------------
(* Program constants *)

INVITE_MAX_AGE_DAYS == 30

\* INVITE_MAX_AGE_DAYS * 24 * 60 * 60 * 1000 ms, in seconds
InviteMaxAge == INVITE_MAX_AGE_DAYS * 24 * 60 * 60

----------------------------------------------------------------------------
(* Queries of the persistence gateway *)

\* prisma.taskListShareInvite.findUnique({ where: { token } })
FindInviteByToken(token) ==
    IF \E i \in invites : i.token = token
      THEN CHOOSE i \in invites : i.token = token
      ELSE NULL

\* prisma.taskList.findUnique({ where: { id } })
FindListById(id) ==
    IF \E l \in lists : l.id = id
      THEN CHOOSE l \in lists : l.id = id
      ELSE NULL

\* orderBy: [{ position: "asc" }, { id: "asc" }]
Before(a, b) ==
    \/ a.position < b.position
    \/ a.position = b.position /\ a.id < b.id

RECURSIVE OrderByPositionId(_)
OrderByPositionId(S) ==
    IF S = {} THEN <<>>
    ELSE LET first == CHOOSE a \in S : \A b \in S \ {a} : Before(a, b)
         IN  <<first>> \o OrderByPositionId(S \ {first})

\* prisma.task.findMany({ where: { listId }, orderBy: position, id })
FindTasksOfList(listId) ==
    OrderByPositionId({ t \in tasks : t.listId = listId })

\* the rows a statement of request r's transaction reads: what is committed
\* at that moment, and the transaction's own writes
TxVisibleLists(r) == lists \cup tx[r].lists

\* tx.taskList.count({ where: { userId } })
TxCountLists(r, userId) ==
    Cardinality({ l \in TxVisibleLists(r) : l.userId = userId })

\* tx.taskList.findFirst({ where: { userId, slug } }) finds a row
TxSlugConflict(r, userId, slug) ==
    \E l \in TxVisibleLists(r) : l.userId = userId /\ l.slug = slug

----------------------------------------------------------------------------
(* The request context *)

\* (req.user && req.user.id) || req.userId || req.session?.userId || null
\* (an absent id is "", the result null is "")
getUserId(ctx) ==
    IF ctx.user # NULL /\ ctx.user.id # "" THEN ctx.user.id
    ELSE IF ctx.userId # "" THEN ctx.userId
    ELSE IF ctx.session # NULL /\ ctx.session.userId # "" THEN ctx.session.userId
    ELSE ""

\* (req.user && req.user.email ? String(req.user.email) : "").toLowerCase().trim()
CurrentEmail(ctx) ==
    trim(toLowerCase(IF ctx.user # NULL THEN ctx.user.email ELSE <<>>))

\* (invite.email || "").toLowerCase().trim()
InvitedEmail(invite) == trim(toLowerCase(invite.email))

\* the email check with currentEmail && for !currentEmail ||
EmailMismatchWhenKnown(ctx, invite) ==
    /\ CurrentEmail(ctx) # <<>>
    /\ CurrentEmail(ctx) # InvitedEmail(invite)

\* !currentEmail || currentEmail !== invitedEmail
EmailMismatch(ctx, invite) ==
    \/ CurrentEmail(ctx) = <<>>
    \/ CurrentEmail(ctx) # InvitedEmail(invite)

\* the age check with >= for >
ExpiredAtMaxAge(invite, clock) ==
    /\ invite.createdAt # 0
    /\ clock - invite.createdAt >= InviteMaxAge

\* createdAt && now.getTime() - createdAt.getTime() > INVITE_MAX_AGE_DAYS * ...
\* (createdAt 0 stands for a null createdAt)
Expired(invite, clock) ==
    /\ invite.createdAt # 0
    /\ clock - invite.createdAt > InviteMaxAge

----------------------------------------------------------------------------
(* Rows *)

\* user ids come from the host's auth layer; an absent id is ""
OWNER == "owner"          \* owns the source list and sent the invite
RECIPIENT == "recipient"  \* the user the invite was sent to
STRANGER == "stranger"    \* some other signed-in user

List(id, userId, name, slug, position) ==
    [id |-> id, userId |-> userId, name |-> name, slug |-> slug,
     position |-> position]

Task(id, userId, listId, title, description, dueDate, recurringConfig, completed, starred, position) ==
    [id |-> id, userId |-> userId, listId |-> listId, title |-> title,
     description |-> description, dueDate |-> dueDate,
     recurringConfig |-> recurringConfig, completed |-> completed,
     starred |-> starred, position |-> position]

\* prisma.taskListShareInvite.update({ where: { id }, data: { status } })
UpdateInviteStatus(rows, id, status) ==
    { IF i.id = id THEN [i EXCEPT !.status = status] ELSE i : i \in rows }

----------------------------------------------------------------------------
(* Redemption requests *)

NoResponse == [code |-> 0, message |-> ""]

IdleRequest ==
    [pc |-> "idle", token |-> "", ctx |-> NULL, invite |-> NULL,
     sourceList |-> NULL, tasksToClone |-> <<>>, baseSlug |-> <<>>,
     listPosition |-> 0, uniqueSlug |-> <<>>, suffix |-> 0,
     clonedList |-> NULL, resp |-> NoResponse]

EmptyTx == [lists |-> {}, tasks |-> {}, invites |-> {}]

\* res.status(code).render(...): the handler returns.  The invite it looked
\* up and the list it cloned stay on record; the other locals are dropped.
Responded(q, code, message) ==
    [IdleRequest EXCEPT !.pc = "done", !.invite = q.invite,
                        !.clonedList = q.clonedList,
                        !.resp = [code |-> code, message |-> message]]

InFlight(r) == req[r].pc \notin {"idle", "done"}

TxPcs == {"txCount", "txProbe", "txCreateList", "txCreateMany", "txUpdateInvite"}

----------------------------------------------------------------------------
(* API requests *)

\* a request of the API router before it arrives: op is the route that
\* handles it, input what the handler read from req.params and req.body,
\* found the row or the count its last query returned, sends the number of
\* calls made to the mailer, created the id of the row it inserted
IdleApi ==
    [pc |-> "idle", op |-> "", userId |-> "", input |-> NULL, found |-> NULL,
     sends |-> 0, created |-> 0, resp |-> NoResponse]

\* res.status(code).json(...): the handler returns
ApiResponded(q, code, message) ==
    [IdleApi EXCEPT !.pc = "done", !.op = q.op, !.sends = q.sends,
                    !.created = q.created,
                    !.resp = [code |-> code, message |-> message]]

ApiInFlight(a) == api[a].pc \notin {"idle", "done"}

----------------------------------------------------------------------------
(* Initial states: one source list of OWNER with a pending invite to       *)
(* RECIPIENT, who may already own lists whose slugs collide with the       *)
(* clone's.                                                                *)

DaySeconds == 24 * 60 * 60

Now0 == 40 * DaySeconds

SlugG == <<"g">>

\* name and slug of the source list; with an empty slug the clone derives
\* its slug from the name
SourceNamings ==
    { [name |-> <<"G">>, slug |-> SlugG],
      [name |-> <<" ", "G", " ", " ", "!", "!">>, slug |-> <<>>] }

\* the tasks of the source list (dense positions; (position, id) order may
\* differ from id order); a null description or recurringConfig is "null",
\* a null dueDate is 0
SourceTaskSets ==
    { {},
      { Task(1, OWNER, 1, "A", "null", 0, "null", FALSE, FALSE, 1),
        Task(2, OWNER, 1, "B", "note", 7, "weekly", TRUE, TRUE, 0) } }

\* the slugs of the lists RECIPIENT already owns, in position order
RecipientSlugs ==
    { <<>>,
      <<SlugG>>,
      <<SuffixedSlug(SlugG, 2)>>,
      <<SlugG, SuffixedSlug(SlugG, 2)>>,
      <<SuffixedSlug(SlugG, 3), SlugG>> }

\* the age of the invite when the behaviour starts
InviteAges == { 0, INVITE_MAX_AGE_DAYS * DaySeconds, 31 * DaySeconds }

\* the request contexts a redemption may arrive with: nobody signed in,
\* the invited account (its email in another case and padded), another
\* account, and a session that carries a user id but no user record
Contexts ==
    { [user |-> NULL, userId |-> "", session |-> NULL],
      [user |-> [id |-> RECIPIENT, email |-> <<" ", "b", "O", "B", " ">>],
       userId |-> "", session |-> NULL],
      [user |-> [id |-> STRANGER, email |-> <<"b", "o">>],
       userId |-> "", session |-> NULL],
      [user |-> NULL, userId |-> "", session |-> [userId |-> RECIPIENT]] }

\* the tokens a redemption may present: none, the invite's, an unknown one
Tokens == { "", "t1", "t0" }

Init ==
    /\ \E naming \in SourceNamings, slugs \in RecipientSlugs :
         lists = { List(1, OWNER, naming.name, naming.slug, 0) }
                 \cup { List(1 + k, RECIPIENT, <<"L">>, slugs[k], k - 1)
                        : k \in DOMAIN slugs }
    /\ tasks \in SourceTaskSets
    /\ \E age \in InviteAges :
         invites = { [id |-> 1, listId |-> 1, inviterId |-> OWNER,
                      email |-> <<"B", "o", "b">>, token |-> "t1",
                      role |-> "editor", status |-> "pending",
                      createdAt |-> Now0 - age] }
    /\ nextListId = 4
    /\ nextTaskId = 3
    /\ now = Now0
    /\ req = [r \in Requests |-> IdleRequest]
    /\ tx = [r \in Requests |-> EmptyTx]
    /\ api = [a \in ApiRequests |-> IdleApi]
    /\ mailer = "undefined"

----------------------------------------------------------------------------
(* GET /share/accept *)

\* the lookup without the sign-in check of lines 434-442
AcceptLookupSignInNotChecked(r, token, ctx) ==
    /\ req[r].pc = "idle"
    /\ LET invite == FindInviteByToken(token)
           q == [req[r] EXCEPT !.token = token, !.ctx = ctx, !.invite = invite]
       IN  req' = [req EXCEPT ![r] =
             IF token = ""
               THEN Responded(q, 400, "Missing invitation")
             ELSE IF invite = NULL
               THEN Responded(q, 404, "Invitation not found")
             ELSE IF invite.status = "revoked"
               THEN Responded(q, 410, "Invitation revoked")
             ELSE IF invite.status = "accepted"
               THEN Responded(q, 409, "Invitation already accepted")
             ELSE [q EXCEPT !.pc = "findSourceList"]]
    /\ UNCHANGED <<lists, tasks, invites, nextListId, nextTaskId, now, tx, api, mailer>>

\* lines 393-442: the token check, the invite lookup, the status checks and
\* the sign-in check
AcceptLookup(r, token, ctx) ==
    /\ req[r].pc = "idle"
    /\ LET invite == FindInviteByToken(token)
           q == [req[r] EXCEPT !.token = token, !.ctx = ctx, !.invite = invite]
       IN  req' = [req EXCEPT ![r] =
             IF token = ""
               THEN Responded(q, 400, "Missing invitation")
             ELSE IF invite = NULL
               THEN Responded(q, 404, "Invitation not found")
             ELSE IF invite.status = "revoked"
               THEN Responded(q, 410, "Invitation revoked")
             ELSE IF invite.status = "accepted"
               THEN Responded(q, 409, "Invitation already accepted")
             ELSE IF getUserId(ctx) = ""
               THEN Responded(q, 401, "Sign in required")
             ELSE [q EXCEPT !.pc = "findSourceList"]]
    /\ UNCHANGED <<lists, tasks, invites, nextListId, nextTaskId, now, tx, api, mailer>>

\* the checks after the source list lookup with the age check moved before
\* the email check
AcceptFindSourceListAgeFirst(r) ==
    /\ req[r].pc = "findSourceList"
    /\ LET q == req[r]
           sourceList == FindListById(q.invite.listId)
       IN  req' = [req EXCEPT ![r] =
             IF sourceList = NULL
               THEN [q EXCEPT !.pc = "revokeUnavailable"]
             ELSE IF Expired(q.invite, now)
               THEN [q EXCEPT !.pc = "revokeExpired", !.sourceList = sourceList]
             ELSE IF EmailMismatch(q.ctx, q.invite)
               THEN Responded(q, 403, "Sign in with the invited email")
             ELSE [q EXCEPT !.pc = "findTasks", !.sourceList = sourceList]]
    /\ UNCHANGED <<lists, tasks, invites, nextListId, nextTaskId, now, tx, api, mailer>>

\* lines 444-447 and 461-476: the source list lookup, then the email check
\* and the age check on the invite read at line 404
AcceptFindSourceList(r) ==
    /\ req[r].pc = "findSourceList"
    /\ LET q == req[r]
           sourceList == FindListById(q.invite.listId)
       IN  req' = [req EXCEPT ![r] =
             IF sourceList = NULL
               THEN [q EXCEPT !.pc = "revokeUnavailable"]
             ELSE IF EmailMismatch(q.ctx, q.invite)
               THEN Responded(q, 403, "Sign in with the invited email")
             ELSE IF Expired(q.invite, now)
               THEN [q EXCEPT !.pc = "revokeExpired", !.sourceList = sourceList]
             ELSE [q EXCEPT !.pc = "findTasks", !.sourceList = sourceList]]
    /\ UNCHANGED <<lists, tasks, invites, nextListId, nextTaskId, now, tx, api, mailer>>

\* lines 449-459: the source list is gone, the invite is revoked
AcceptRevokeUnavailable(r) ==
    /\ req[r].pc = "revokeUnavailable"
    /\ invites' = UpdateInviteStatus(invites, req[r].invite.id, "revoked")
    /\ req' = [req EXCEPT ![r] = Responded(req[r], 410, "List unavailable")]
    /\ UNCHANGED <<lists, tasks, nextListId, nextTaskId, now, tx, api, mailer>>

\* lines 477-487: the invite is too old, it is revoked
AcceptRevokeExpired(r) ==
    /\ req[r].pc = "revokeExpired"
    /\ invites' = UpdateInviteStatus(invites, req[r].invite.id, "revoked")
    /\ req' = [req EXCEPT ![r] = Responded(req[r], 410, "Invitation expired")]
    /\ UNCHANGED <<lists, tasks, nextListId, nextTaskId, now, tx, api, mailer>>

\* lines 489-501: the source tasks are read, the candidate slug is computed
\* and the transaction is opened
AcceptFindTasks(r) ==
    /\ req[r].pc = "findTasks"
    /\ LET q == req[r]
       IN  req' = [req EXCEPT ![r] =
             [q EXCEPT !.pc = "txCount",
                       !.tasksToClone = FindTasksOfList(q.sourceList.id),
                       !.baseSlug = BaseSlug(q.sourceList)]]
    /\ UNCHANGED <<lists, tasks, invites, nextListId, nextTaskId, now, tx, api, mailer>>

----------------------------------------------------------------------------
(* The clone transaction, lines 501-549.  Its writes are held in tx[r]     *)
(* until the commit; the id sequences are advanced at once.                *)

\* lines 502-506: the recipient's lists are counted
TxCount(r) ==
    /\ req[r].pc = "txCount"
    /\ LET q == req[r]
       IN  req' = [req EXCEPT ![r] =
             [q EXCEPT !.pc = "txProbe",
                       !.listPosition = TxCountLists(r, getUserId(q.ctx)),
                       !.uniqueSlug = q.baseSlug,
                       !.suffix = 2]]
    /\ UNCHANGED <<lists, tasks, invites, nextListId, nextTaskId, now, tx, api, mailer>>

\* the probe as an if instead of a loop: the suffixed slug is not probed
TxProbeOnce(r) ==
    /\ req[r].pc = "txProbe"
    /\ LET q == req[r]
       IN  req' = [req EXCEPT ![r] =
             IF TxSlugConflict(r, getUserId(q.ctx), q.uniqueSlug)
               THEN [q EXCEPT !.uniqueSlug = SuffixedSlug(q.baseSlug, q.suffix),
                              !.suffix = q.suffix + 1,
                              !.pc = "txCreateList"]
               ELSE [q EXCEPT !.pc = "txCreateList"]]
    /\ UNCHANGED <<lists, tasks, invites, nextListId, nextTaskId, now, tx, api, mailer>>

\* the probe without suffix += 1: after the first conflict the same slug is
\* probed again and again
TxProbeSameSuffix(r) ==
    /\ req[r].pc = "txProbe"
    /\ LET q == req[r]
       IN  req' = [req EXCEPT ![r] =
             IF TxSlugConflict(r, getUserId(q.ctx), q.uniqueSlug)
               THEN [q EXCEPT !.uniqueSlug = SuffixedSlug(q.baseSlug, q.suffix)]
               ELSE [q EXCEPT !.pc = "txCreateList"]]
    /\ UNCHANGED <<lists, tasks, invites, nextListId, nextTaskId, now, tx, api, mailer>>

\* lines 508-516: one turn of the slug probe loop
TxProbe(r) ==
    /\ req[r].pc = "txProbe"
    /\ LET q == req[r]
       IN  req' = [req EXCEPT ![r] =
             IF TxSlugConflict(r, getUserId(q.ctx), q.uniqueSlug)
               THEN [q EXCEPT !.uniqueSlug = SuffixedSlug(q.baseSlug, q.suffix),
                              !.suffix = q.suffix + 1]
               ELSE [q EXCEPT !.pc = "txCreateList"]]
    /\ UNCHANGED <<lists, tasks, invites, nextListId, nextTaskId, now, tx, api, mailer>>

\* the insert done on prisma instead of tx: it is outside the transaction
TxCreateListOutsideTx(r) ==
    /\ req[r].pc = "txCreateList"
    /\ LET q == req[r]
           clonedList == List(nextListId, getUserId(q.ctx), q.sourceList.name,
                              q.uniqueSlug, q.listPosition)
       IN  /\ lists' = lists \cup {clonedList}
           /\ req' = [req EXCEPT ![r] =
                        [q EXCEPT !.clonedList = clonedList,
                                  !.pc = IF Len(q.tasksToClone) > 0
                                           THEN "txCreateMany"
                                           ELSE "txUpdateInvite"]]
    /\ nextListId' = nextListId + 1
    /\ UNCHANGED <<tasks, invites, nextTaskId, now, tx, api, mailer>>

\* lines 518-527: the cloned list is inserted
TxCreateList(r) ==
    /\ req[r].pc = "txCreateList"
    /\ LET q == req[r]
           clonedList == List(nextListId, getUserId(q.ctx), q.sourceList.name,
                              q.uniqueSlug, q.listPosition)
       IN  /\ tx' = [tx EXCEPT ![r].lists = @ \cup {clonedList}]
           /\ req' = [req EXCEPT ![r] =
                        [q EXCEPT !.clonedList = clonedList,
                                  !.pc = IF Len(q.tasksToClone) > 0
                                           THEN "txCreateMany"
                                           ELSE "txUpdateInvite"]]
    /\ nextListId' = nextListId + 1
    /\ UNCHANGED <<lists, tasks, invites, nextTaskId, now, api, mailer>>

\* the copies created like new tasks, completed: false (api line 392)
TxCreateManyUncompleted(r) ==
    /\ req[r].pc = "txCreateMany"
    /\ LET q == req[r]
           copy(k) ==
             LET task == q.tasksToClone[k]
             IN  Task(nextTaskId + k - 1, getUserId(q.ctx), q.clonedList.id,
                      task.title, task.description, task.dueDate,
                      task.recurringConfig, FALSE, task.starred,
                      task.position)
       IN  /\ tx' = [tx EXCEPT ![r].tasks =
                       @ \cup { copy(k) : k \in DOMAIN q.tasksToClone }]
           /\ nextTaskId' = nextTaskId + Len(q.tasksToClone)
    /\ req' = [req EXCEPT ![r].pc = "txUpdateInvite"]
    /\ UNCHANGED <<lists, tasks, invites, nextListId, now, api, mailer>>

\* lines 528-541: one copy of every source task read at line 489
TxCreateMany(r) ==
    /\ req[r].pc = "txCreateMany"
    /\ LET q == req[r]
           copy(k) ==
             LET task == q.tasksToClone[k]
             IN  Task(nextTaskId + k - 1, getUserId(q.ctx), q.clonedList.id,
                      task.title, task.description, task.dueDate,
                      task.recurringConfig, task.completed, task.starred,
                      task.position)
       IN  /\ tx' = [tx EXCEPT ![r].tasks =
                       @ \cup { copy(k) : k \in DOMAIN q.tasksToClone }]
           /\ nextTaskId' = nextTaskId + Len(q.tasksToClone)
    /\ req' = [req EXCEPT ![r].pc = "txUpdateInvite"]
    /\ UNCHANGED <<lists, tasks, invites, nextListId, now, api, mailer>>

\* the commit without the status write of lines 543-546
TxCommitStatusNotWritten(r) ==
    /\ req[r].pc = "txUpdateInvite"
    /\ lists' = lists \cup tx[r].lists
    /\ tasks' = tasks \cup tx[r].tasks
    /\ tx' = [tx EXCEPT ![r] = EmptyTx]
    /\ req' = [req EXCEPT ![r] = Responded(req[r], 200, "Invitation accepted")]
    /\ UNCHANGED <<invites, nextListId, nextTaskId, now, api, mailer>>

\* lines 543-566: the invite is marked accepted, the transaction commits
\* and the page is rendered
TxUpdateInviteAndCommit(r) ==
    /\ req[r].pc = "txUpdateInvite"
    /\ lists' = lists \cup tx[r].lists
    /\ tasks' = tasks \cup tx[r].tasks
    /\ invites' = UpdateInviteStatus(invites, req[r].invite.id, "accepted")
    /\ tx' = [tx EXCEPT ![r] = EmptyTx]
    /\ req' = [req EXCEPT ![r] = Responded(req[r], 200, "Invitation accepted")]
    /\ UNCHANGED <<nextListId, nextTaskId, now, api, mailer>>

\* a statement of the transaction (or its commit) throws: the transaction is
\* rolled back, and asyncHandler (lines 26-30) passes the error on
TxFail(r) ==
    /\ req[r].pc \in TxPcs
    /\ tx' = [tx EXCEPT ![r] = EmptyTx]
    /\ req' = [req EXCEPT ![r] = Responded(req[r], 500, "Internal server error")]
    /\ UNCHANGED <<lists, tasks, invites, nextListId, nextTaskId, now, api, mailer>>

----------------------------------------------------------------------------
(* The environment of a redemption *)

\* DELETE /lists/:id: the list and its tasks are deleted in one transaction
DeleteList(userId, id) ==
    /\ \E existing \in lists : existing.id = id /\ existing.userId = userId
    /\ tasks' = { t \in tasks : ~(t.listId = id /\ t.userId = userId) }
    /\ lists' = { l \in lists : l.id # id }
    /\ UNCHANGED <<invites, nextListId, nextTaskId, now, req, tx, api, mailer>>

\* a second passes
Tick ==
    /\ now < Now0 + MaxTicks
    /\ now' = now + 1
    /\ UNCHANGED <<lists, tasks, invites, nextListId, nextTaskId, req, tx, api, mailer>>

----------------------------------------------------------------------------
(* Specifications *)

\* requests are interchangeable: they arrive in the order of their numbers
Arrives(r) == \A o \in Requests : o < r => req[o].pc # "idle"

Quiet == \A r \in Requests : ~InFlight(r)

Accept(r) ==
    \/ AcceptFindSourceList(r)
    \/ AcceptRevokeUnavailable(r)
    \/ AcceptRevokeExpired(r)
    \/ AcceptFindTasks(r)
    \/ TxCount(r)
    \/ TxProbe(r)
    \/ TxCreateList(r)
    \/ TxCreateMany(r)
    \/ TxUpdateInviteAndCommit(r)
    \/ TxFail(r)

\* requests, the owner's deletion of the source list and the clock
\* interleave at every await
Next ==
    \/ \E r \in Requests, token \in Tokens, ctx \in Contexts :
         Arrives(r) /\ AcceptLookup(r, token, ctx)
    \/ \E r \in Requests : Accept(r)
    \/ \E l \in lists : DeleteList(OWNER, l.id)
    \/ Tick

Spec == Init /\ [][Next]_vars

\* one request at a time, each run from its first line to its response;
\* the owner deletes the source list and the clock advances between requests
NextSeq ==
    \/ \E r \in Requests, token \in Tokens, ctx \in Contexts :
         Quiet /\ Arrives(r) /\ AcceptLookup(r, token, ctx)
    \/ \E r \in Requests : Accept(r)
    \/ \E l \in lists : Quiet /\ DeleteList(OWNER, l.id)
    \/ Quiet /\ Tick

SpecSeq == Init /\ [][NextSeq]_vars

\* the initial states whose source list has a slug: it is the base slug of
\* the clone (line 495)
InitLive == Init /\ \A l \in lists : l.slug # <<>>

\* the interleaved requests, with the scheduling of the handler's awaits:
\* the store answers every statement a handler awaits and the event loop
\* resumes the handler with the answer, so a request that can take its
\* next step takes it in the end.  No statement is obliged to throw.
SpecLive ==
    /\ InitLive
    /\ [][Next]_vars
    /\ \A r \in Requests : WF_vars(Accept(r) /\ ~TxFail(r))

----------------------------------------------------------------------------
(* Two invites to one recipient: OWNER and STRANGER each own a list with   *)
(* slug g and each has invited RECIPIENT.                                  *)

\* the tokens a redemption may present: those of the two invites
TokensOfTwo == { "t1", "t2" }

InitTwo ==
    /\ lists = { List(1, OWNER, <<"G">>, SlugG, 0),
                 List(2, STRANGER, <<"G">>, SlugG, 0) }
    /\ tasks = { Task(1, OWNER, 1, "A", "null", 0, "null", FALSE, FALSE, 0),
                 Task(2, STRANGER, 2, "B", "note", 7, "weekly", TRUE, TRUE, 0) }
    /\ \E age \in InviteAges :
         invites = { [id |-> 1, listId |-> 1, inviterId |-> OWNER,
                      email |-> <<"B", "o", "b">>, token |-> "t1",
                      role |-> "editor", status |-> "pending",
                      createdAt |-> Now0 - age],
                     [id |-> 2, listId |-> 2, inviterId |-> STRANGER,
                      email |-> <<"b", "o", "b">>, token |-> "t2",
                      role |-> "editor", status |-> "pending",
                      createdAt |-> Now0] }
    /\ nextListId = 3
    /\ nextTaskId = 3
    /\ now = Now0
    /\ req = [r \in Requests |-> IdleRequest]
    /\ tx = [r \in Requests |-> EmptyTx]
    /\ api = [a \in ApiRequests |-> IdleApi]
    /\ mailer = "undefined"

\* the redemptions of the two invites, the owner's deletion of the first
\* source list and the clock interleave at every await
NextTwo ==
    \/ \E r \in Requests, token \in TokensOfTwo, ctx \in Contexts :
         Arrives(r) /\ AcceptLookup(r, token, ctx)
    \/ \E r \in Requests : Accept(r)
    \/ \E l \in lists : DeleteList(OWNER, l.id)
    \/ Tick

SpecTwo == InitTwo /\ [][NextTwo]_vars

----------------------------------------------------------------------------
(* The API router of src/routes/api/index.js: values of req.params and     *)
(* req.body.  A path segment or a body value is a string (a sequence of    *)
(* characters); a body is a record of the fields that are present.         *)

\* Number(v) of a string that holds no number
NaN == -1

\* the value of a string of decimal digits
RECURSIVE DigitsValue(_)
DigitsValue(s) ==
    IF s = <<>> THEN 0
    ELSE 10 * DigitsValue(SubSeq(s, 1, Len(s) - 1))
         + (CHOOSE d \in DOMAIN DigitChars : DigitChars[d] = s[Len(s)]) - 1

\* Number(v): decimal digits, the whitespace around them dropped, give their
\* value (the empty string gives 0); any other string gives NaN
Number(v) ==
    LET t == trim(v)
    IN  IF \A i \in DOMAIN t : t[i] \in Range(DigitChars)
          THEN DigitsValue(t)
          ELSE NaN

\* Number.isFinite(n)
IsFinite(n) == n # NaN

\* !Array.isArray(order) || order.some((v) => !Number.isFinite(Number(v)))
InvalidOrder(body, field) ==
    \/ field \notin DOMAIN body
    \/ \E i \in DOMAIN body[field] : ~IsFinite(Number(body[field][i]))

\* order.map((v) => Number(v))
NumberAll(order) == [ i \in DOMAIN order |-> Number(order[i]) ]

\* /^[^@\s]+@[^@\s]+\.[^@\s]+$/.test(s): no whitespace, one @ with
\* something before it, and after it a dot with something on both sides
simpleEmail(s) ==
    /\ \A i \in DOMAIN s : ~IsSpace(s[i])
    /\ Cardinality({ i \in DOMAIN s : s[i] = "@" }) = 1
    /\ LET at == CHOOSE i \in DOMAIN s : s[i] = "@"
       IN  /\ at > 1
           /\ \E dot \in (at + 2)..(Len(s) - 1) : s[dot] = "."

\* the 500 of the router's error handler, lines 802-823
InternalError(q) == ApiResponded(q, 500, "Internal server error")

----------------------------------------------------------------------------
(* Lists: POST /lists, PUT /lists/:id, DELETE /lists/:id, PUT /lists/order *)

\* slug && typeof slug === "string" ? slug : name.toLowerCase().replace(/\s+/g, "-")
CreatedSlug(body) ==
    IF "slug" \in DOMAIN body /\ body.slug # <<>>
      THEN body.slug
      ELSE ReplaceSpaceRuns(toLowerCase(body.name))

\* lines 114-129: the sign-in check, the name check and the count
CreateListCount(a, ctx, body) ==
    /\ api[a].pc = "idle"
    /\ LET userId == getUserId(ctx)
           q == [api[a] EXCEPT !.op = "POST /lists", !.userId = userId,
                               !.input = body]
       IN  api' = [api EXCEPT ![a] =
             IF userId = ""
               THEN ApiResponded(q, 401, "Unauthorized")
             ELSE IF "name" \notin DOMAIN body \/ body.name = <<>>
               THEN ApiResponded(q, 400, "name is required")
             ELSE [q EXCEPT !.pc = "createList",
                            !.found = Cardinality({ l \in lists :
                                                    l.userId = userId })]]
    /\ UNCHANGED <<lists, tasks, invites, nextListId, nextTaskId, now, req, tx, mailer>>

\* lines 131-140: the list is inserted at position count
CreateListCreate(a) ==
    /\ api[a].pc = "createList"
    /\ LET q == api[a]
           created == List(nextListId, q.userId, q.input.name,
                           CreatedSlug(q.input), q.found)
       IN  /\ lists' = lists \cup {created}
           /\ api' = [api EXCEPT ![a] =
                        ApiResponded([q EXCEPT !.created = created.id], 201, "")]
    /\ nextListId' = nextListId + 1
    /\ UNCHANGED <<tasks, invites, nextTaskId, now, req, tx, mailer>>

\* lines 151-179: the sign-in check, the id check and the lookup of the list
UpdateListFind(a, ctx, rawId, body) ==
    /\ api[a].pc = "idle"
    /\ LET userId == getUserId(ctx)
           id == Number(rawId)
           q == [api[a] EXCEPT !.op = "PUT /lists/:id", !.userId = userId,
                               !.input = [id |-> id, body |-> body]]
       IN  api' = [api EXCEPT ![a] =
             IF userId = ""
               THEN ApiResponded(q, 401, "Unauthorized")
             ELSE IF ~IsFinite(id)
               THEN ApiResponded(q, 400, "Invalid id")
             ELSE IF ~\E l \in lists : l.id = id /\ l.userId = userId
               THEN ApiResponded(q, 404, "List not found")
             ELSE [q EXCEPT !.pc = "updateList",
                            !.found = CHOOSE l \in lists :
                                        l.id = id /\ l.userId = userId]]
    /\ UNCHANGED <<lists, tasks, invites, nextListId, nextTaskId, now, req, tx, mailer>>

\* lines 181-191: name and slug are written (an update of a row that is
\* gone throws)
UpdateListUpdate(a) ==
    /\ api[a].pc = "updateList"
    /\ LET q == api[a]
           body == q.input.body
           updated(l) ==
             [l EXCEPT !.name = IF "name" \in DOMAIN body THEN body.name
                                ELSE q.found.name,
                       !.slug = IF "slug" \in DOMAIN body THEN body.slug
                                ELSE q.found.slug]
       IN  IF \E l \in lists : l.id = q.input.id
             THEN /\ lists' = { IF l.id = q.input.id THEN updated(l) ELSE l
                                : l \in lists }
                  /\ api' = [api EXCEPT ![a] = ApiResponded(q, 200, "")]
             ELSE /\ lists' = lists
                  /\ api' = [api EXCEPT ![a] = InternalError(q)]
    /\ UNCHANGED <<tasks, invites, nextListId, nextTaskId, now, req, tx, mailer>>

\* lines 202-228: the sign-in check, the id check and the lookup of the list
DeleteListFind(a, ctx, rawId) ==
    /\ api[a].pc = "idle"
    /\ LET userId == getUserId(ctx)
           id == Number(rawId)
           q == [api[a] EXCEPT !.op = "DELETE /lists/:id", !.userId = userId,
                               !.input = [id |-> id]]
       IN  api' = [api EXCEPT ![a] =
             IF userId = ""
               THEN ApiResponded(q, 401, "Unauthorized")
             ELSE IF ~IsFinite(id)
               THEN ApiResponded(q, 400, "Invalid id")
             ELSE IF ~\E l \in lists : l.id = id /\ l.userId = userId
               THEN ApiResponded(q, 404, "List not found")
             ELSE [q EXCEPT !.pc = "deleteListTx"]]
    /\ UNCHANGED <<lists, tasks, invites, nextListId, nextTaskId, now, req, tx, mailer>>

\* the transaction with task.deleteMany({ listId: id }): every task
\* attached to the list is deleted, whoever owns it
DeleteListTransactionAnyOwner(a) ==
    /\ api[a].pc = "deleteListTx"
    /\ LET q == api[a]
       IN  IF \E l \in lists : l.id = q.input.id
             THEN /\ tasks' = { t \in tasks : t.listId # q.input.id }
                  /\ lists' = { l \in lists : l.id # q.input.id }
                  /\ api' = [api EXCEPT ![a] = ApiResponded(q, 200, "")]
             ELSE /\ UNCHANGED <<lists, tasks>>
                  /\ api' = [api EXCEPT ![a] = InternalError(q)]
    /\ UNCHANGED <<invites, nextListId, nextTaskId, now, req, tx, mailer>>

\* lines 230-235: the transaction of task.deleteMany({ listId: id, userId })
\* and taskList.delete({ id }) (the delete of a row that is gone throws and
\* the transaction is rolled back)
DeleteListTransaction(a) ==
    /\ api[a].pc = "deleteListTx"
    /\ LET q == api[a]
       IN  IF \E l \in lists : l.id = q.input.id
             THEN /\ tasks' = { t \in tasks : ~(t.listId = q.input.id
                                                /\ t.userId = q.userId) }
                  /\ lists' = { l \in lists : l.id # q.input.id }
                  /\ api' = [api EXCEPT ![a] = ApiResponded(q, 200, "")]
             ELSE /\ UNCHANGED <<lists, tasks>>
                  /\ api' = [api EXCEPT ![a] = InternalError(q)]
    /\ UNCHANGED <<invites, nextListId, nextTaskId, now, req, tx, mailer>>

\* a statement of the transaction of lines 230-233 throws: both statements
\* are rolled back
DeleteListTransactionFails(a) ==
    /\ api[a].pc = "deleteListTx"
    /\ api' = [api EXCEPT ![a] = InternalError(api[a])]
    /\ UNCHANGED <<lists, tasks, invites, nextListId, nextTaskId, now, req, tx, mailer>>

\* lines 245-276: the sign-in check, the check of listOrder and the lookup
\* of the caller's lists among the ids
ReorderListsFind(a, ctx, body) ==
    /\ api[a].pc = "idle"
    /\ LET userId == getUserId(ctx)
           q == [api[a] EXCEPT !.op = "PUT /lists/order", !.userId = userId]
       IN  api' = [api EXCEPT ![a] =
             IF userId = ""
               THEN ApiResponded(q, 401, "Unauthorized")
             ELSE IF InvalidOrder(body, "listOrder")
               THEN ApiResponded(q, 400, "listOrder must be an array of ids")
             ELSE LET ids == NumberAll(body.listOrder)
                      existingIds == { l.id : l \in { m \in lists :
                                         m.userId = userId /\ m.id \in Range(ids) } }
                  IN  IF \E i \in DOMAIN ids : ids[i] \notin existingIds
                        THEN ApiResponded(q, 400,
                               "Some lists do not exist or do not belong to user")
                        ELSE [q EXCEPT !.pc = "reorderListsTx",
                                       !.input = [ids |-> ids]]]
    /\ UNCHANGED <<lists, tasks, invites, nextListId, nextTaskId, now, req, tx, mailer>>

\* ids.map((id, index) => update({ where: { id }, data: { position: index } })),
\* run in the order of the array, from the entry at from on
RECURSIVE UpdateListPositions(_, _, _)
UpdateListPositions(rows, ids, from) ==
    IF from > Len(ids) THEN rows
    ELSE UpdateListPositions(
           { IF l.id = ids[from] THEN [l EXCEPT !.position = from - 1] ELSE l
             : l \in rows },
           ids, from + 1)

\* lines 278-287: the transaction of the position updates (an update of a
\* row that is gone throws and the transaction is rolled back)
ReorderListsTransaction(a) ==
    /\ api[a].pc = "reorderListsTx"
    /\ LET q == api[a]
           ids == q.input.ids
       IN  IF \A i \in DOMAIN ids : \E l \in lists : l.id = ids[i]
             THEN /\ lists' = UpdateListPositions(lists, ids, 1)
                  /\ api' = [api EXCEPT ![a] = ApiResponded(q, 200, "")]
             ELSE /\ lists' = lists
                  /\ api' = [api EXCEPT ![a] = InternalError(q)]
    /\ UNCHANGED <<tasks, invites, nextListId, nextTaskId, now, req, tx, mailer>>

\* a statement of the transaction of lines 278-285 throws: every update is
\* rolled back
ReorderListsTransactionFails(a) ==
    /\ api[a].pc = "reorderListsTx"
    /\ api' = [api EXCEPT ![a] = InternalError(api[a])]
    /\ UNCHANGED <<lists, tasks, invites, nextListId, nextTaskId, now, req, tx, mailer>>

----------------------------------------------------------------------------
(* Tasks: POST /, PUT /:id, DELETE /:id, PUT /order,                        *)
(* DELETE /lists/:id/completed                                             *)

\* Number(listId) of the body (undefined gives NaN)
BodyListId(body) ==
    IF "listId" \in DOMAIN body THEN Number(body.listId) ELSE NaN

\* lines 333-378: the sign-in check, the checks of listId and title and the
\* lookup of the caller's list
CreateTaskFindList(a, ctx, body) ==
    /\ api[a].pc = "idle"
    /\ LET userId == getUserId(ctx)
           parsedListId == BodyListId(body)
           q == [api[a] EXCEPT !.op = "POST /", !.userId = userId,
                               !.input = [listId |-> parsedListId,
                                          body |-> body]]
       IN  api' = [api EXCEPT ![a] =
             IF userId = ""
               THEN ApiResponded(q, 401, "Unauthorized")
             ELSE IF ~IsFinite(parsedListId)
               THEN ApiResponded(q, 400, "listId is required and must be a number")
             ELSE IF "title" \notin DOMAIN body \/ body.title = ""
               THEN ApiResponded(q, 400, "title is required")
             ELSE IF ~\E l \in lists : l.id = parsedListId /\ l.userId = userId
               THEN ApiResponded(q, 404, "List not found")
             ELSE [q EXCEPT !.pc = "createTaskCount"]]
    /\ UNCHANGED <<lists, tasks, invites, nextListId, nextTaskId, now, req, tx, mailer>>

\* lines 380-382: the caller's tasks in the list are counted
CreateTaskCount(a) ==
    /\ api[a].pc = "createTaskCount"
    /\ LET q == api[a]
       IN  api' = [api EXCEPT ![a] =
             [q EXCEPT !.pc = "createTask",
                       !.found = Cardinality({ t \in tasks :
                                     /\ t.userId = q.userId
                                     /\ t.listId = q.input.listId })]]
    /\ UNCHANGED <<lists, tasks, invites, nextListId, nextTaskId, now, req, tx, mailer>>

\* lines 384-398: the task is inserted at position countInList
CreateTaskCreate(a) ==
    /\ api[a].pc = "createTask"
    /\ LET q == api[a]
           body == q.input.body
           created ==
             Task(nextTaskId, q.userId, q.input.listId, body.title,
                  IF "description" \in DOMAIN body THEN body.description
                  ELSE "null",
                  IF "dueDate" \in DOMAIN body THEN body.dueDate ELSE 0,
                  IF "recurringConfig" \in DOMAIN body
                    THEN body.recurringConfig ELSE "null",
                  FALSE,
                  "starred" \in DOMAIN body /\ body.starred,
                  q.found)
       IN  /\ tasks' = tasks \cup {created}
           /\ api' = [api EXCEPT ![a] =
                        ApiResponded([q EXCEPT !.created = created.id], 201, "")]
    /\ nextTaskId' = nextTaskId + 1
    /\ UNCHANGED <<lists, invites, nextListId, now, req, tx, mailer>>

\* lines 449-489: the data of the update, built from the fields of the body
\* that are present
TaskUpdateData(body) ==
    [ f \in DOMAIN body \cap {"listId", "title", "description", "dueDate",
                              "recurringConfig", "completed", "starred",
                              "position"} |->
        IF f \in {"listId", "position"} THEN Number(body[f]) ELSE body[f] ]

\* prisma.task.update({ where: { id }, data }) on one row
UpdatedTask(t, data) ==
    [ f \in DOMAIN t |-> IF f \in DOMAIN data THEN data[f] ELSE t[f] ]

\* lines 410-489: the sign-in check, the id check, the lookup of the
\* caller's task and the checks of listId and position
UpdateTaskFind(a, ctx, rawId, body) ==
    /\ api[a].pc = "idle"
    /\ LET userId == getUserId(ctx)
           id == Number(rawId)
           data == TaskUpdateData(body)
           q == [api[a] EXCEPT !.op = "PUT /:id", !.userId = userId,
                               !.input = [id |-> id, data |-> data]]
       IN  api' = [api EXCEPT ![a] =
             IF userId = ""
               THEN ApiResponded(q, 401, "Unauthorized")
             ELSE IF ~IsFinite(id)
               THEN ApiResponded(q, 400, "Invalid id")
             ELSE IF ~\E t \in tasks : t.id = id /\ t.userId = userId
               THEN ApiResponded(q, 404, "Task not found")
             ELSE IF "listId" \in DOMAIN data /\ ~IsFinite(data.listId)
               THEN ApiResponded(q, 400, "Invalid listId")
             ELSE IF "position" \in DOMAIN data /\ ~IsFinite(data.position)
               THEN ApiResponded(q, 400, "Invalid position")
             ELSE [q EXCEPT !.pc = "updateTask"]]
    /\ UNCHANGED <<lists, tasks, invites, nextListId, nextTaskId, now, req, tx, mailer>>

\* lines 491-496: the data is written (an update of a row that is gone
\* throws)
UpdateTaskUpdate(a) ==
    /\ api[a].pc = "updateTask"
    /\ LET q == api[a]
       IN  IF \E t \in tasks : t.id = q.input.id
             THEN /\ tasks' = { IF t.id = q.input.id
                                  THEN UpdatedTask(t, q.input.data) ELSE t
                                : t \in tasks }
                  /\ api' = [api EXCEPT ![a] = ApiResponded(q, 200, "")]
             ELSE /\ tasks' = tasks
                  /\ api' = [api EXCEPT ![a] = InternalError(q)]
    /\ UNCHANGED <<lists, invites, nextListId, nextTaskId, now, req, tx, mailer>>

\* lines 509-535: the sign-in check, the id check and the lookup of the
\* caller's task
DeleteTaskFind(a, ctx, rawId) ==
    /\ api[a].pc = "idle"
    /\ LET userId == getUserId(ctx)
           id == Number(rawId)
           q == [api[a] EXCEPT !.op = "DELETE /:id", !.userId = userId,
                               !.input = [id |-> id]]
       IN  api' = [api EXCEPT ![a] =
             IF userId = ""
               THEN ApiResponded(q, 401, "Unauthorized")
             ELSE IF ~IsFinite(id)
               THEN ApiResponded(q, 400, "Invalid id")
             ELSE IF ~\E t \in tasks : t.id = id /\ t.userId = userId
               THEN ApiResponded(q, 404, "Task not found")
             ELSE [q EXCEPT !.pc = "deleteTask"]]
    /\ UNCHANGED <<lists, tasks, invites, nextListId, nextTaskId, now, req, tx, mailer>>

\* lines 537-539: the task is deleted (a delete of a row that is gone throws)
DeleteTaskDelete(a) ==
    /\ api[a].pc = "deleteTask"
    /\ LET q == api[a]
       IN  IF \E t \in tasks : t.id = q.input.id
             THEN /\ tasks' = { t \in tasks : t.id # q.input.id }
                  /\ api' = [api EXCEPT ![a] = ApiResponded(q, 200, "")]
             ELSE /\ tasks' = tasks
                  /\ api' = [api EXCEPT ![a] = InternalError(q)]
    /\ UNCHANGED <<lists, invites, nextListId, nextTaskId, now, req, tx, mailer>>

\* lines 549-591: the sign-in check, the checks of listId and taskOrder and
\* the lookup of the caller's tasks among the ids
ReorderTasksFind(a, ctx, body) ==
    /\ api[a].pc = "idle"
    /\ LET userId == getUserId(ctx)
           parsedListId == BodyListId(body)
           q == [api[a] EXCEPT !.op = "PUT /order", !.userId = userId]
       IN  api' = [api EXCEPT ![a] =
             IF userId = ""
               THEN ApiResponded(q, 401, "Unauthorized")
             ELSE IF ~IsFinite(parsedListId)
               THEN ApiResponded(q, 400, "listId is required and must be a number")
             ELSE IF InvalidOrder(body, "taskOrder")
               THEN ApiResponded(q, 400, "taskOrder must be an array of ids")
             ELSE LET ids == NumberAll(body.taskOrder)
                      existingIds == { t.id : t \in { u \in tasks :
                                         u.userId = userId /\ u.id \in Range(ids) } }
                  IN  IF \E i \in DOMAIN ids : ids[i] \notin existingIds
                        THEN ApiResponded(q, 400,
                               "Some tasks do not exist or do not belong to user")
                        ELSE [q EXCEPT !.pc = "reorderTasksTx",
                                       !.input = [listId |-> parsedListId,
                                                  ids |-> ids]]]
    /\ UNCHANGED <<lists, tasks, invites, nextListId, nextTaskId, now, req, tx, mailer>>

\* ids.map((id, index) => update({ where: { id },
\*                                 data: { listId: parsedListId, position: index } })),
\* run in the order of the array, from the entry at from on
RECURSIVE UpdateTaskPositions(_, _, _, _)
UpdateTaskPositions(rows, listId, ids, from) ==
    IF from > Len(ids) THEN rows
    ELSE UpdateTaskPositions(
           { IF t.id = ids[from]
               THEN [t EXCEPT !.listId = listId, !.position = from - 1]
               ELSE t
             : t \in rows },
           listId, ids, from + 1)

\* lines 593-602: the transaction of the listId and position updates (an
\* update of a row that is gone throws and the transaction is rolled back)
ReorderTasksTransaction(a) ==
    /\ api[a].pc = "reorderTasksTx"
    /\ LET q == api[a]
           ids == q.input.ids
       IN  IF \A i \in DOMAIN ids : \E t \in tasks : t.id = ids[i]
             THEN /\ tasks' = UpdateTaskPositions(tasks, q.input.listId, ids, 1)
                  /\ api' = [api EXCEPT ![a] = ApiResponded(q, 200, "")]
             ELSE /\ tasks' = tasks
                  /\ api' = [api EXCEPT ![a] = InternalError(q)]
    /\ UNCHANGED <<lists, invites, nextListId, nextTaskId, now, req, tx, mailer>>

\* a statement of the transaction of lines 593-600 throws: every update is
\* rolled back
ReorderTasksTransactionFails(a) ==
    /\ api[a].pc = "reorderTasksTx"
    /\ api' = [api EXCEPT ![a] = InternalError(api[a])]
    /\ UNCHANGED <<lists, tasks, invites, nextListId, nextTaskId, now, req, tx, mailer>>

\* lines 759-785: the sign-in check, the id check and the lookup of the
\* caller's list
DeleteCompletedFindList(a, ctx, rawId) ==
    /\ api[a].pc = "idle"
    /\ LET userId == getUserId(ctx)
           listId == Number(rawId)
           q == [api[a] EXCEPT !.op = "DELETE /lists/:id/completed",
                               !.userId = userId,
                               !.input = [listId |-> listId]]
       IN  api' = [api EXCEPT ![a] =
             IF userId = ""
               THEN ApiResponded(q, 401, "Unauthorized")
             ELSE IF ~IsFinite(listId)
               THEN ApiResponded(q, 400, "Invalid list id")
             ELSE IF ~\E l \in lists : l.id = listId /\ l.userId = userId
               THEN ApiResponded(q, 404, "List not found")
             ELSE [q EXCEPT !.pc = "deleteCompleted"]]
    /\ UNCHANGED <<lists, tasks, invites, nextListId, nextTaskId, now, req, tx, mailer>>

\* lines 787-791: task.deleteMany({ userId, listId, completed: true })
DeleteCompletedDeleteMany(a) ==
    /\ api[a].pc = "deleteCompleted"
    /\ LET q == api[a]
       IN  /\ tasks' = { t \in tasks : ~(/\ t.userId = q.userId
                                         /\ t.listId = q.input.listId
                                         /\ t.completed) }
           /\ api' = [api EXCEPT ![a] = ApiResponded(q, 200, "")]
    /\ UNCHANGED <<lists, invites, nextListId, nextTaskId, now, req, tx, mailer>>

----------------------------------------------------------------------------
(* Sharing: POST /lists/:id/share *)

\* ctx.mailer: absent, a function, an object with a sendMail function, an
\* object without one
Mailers == { "undefined", "function", "transport", "object" }

\* lines 671-676: sendMailFn is not null
HasSendMailFn(m) == m \in { "transport", "function" }

\* crypto.randomBytes(32).toString("hex"): the values it may return
ShareTokens == { "s1", "s2" }

\* (email || "").trim()
TrimmedEmail(body) == trim(IF "email" \in DOMAIN body THEN body.email ELSE <<>>)

\* the checks of the share handler with the lookup of the list by id alone
ShareFindListAnyOwner(a, ctx, rawId, body) ==
    /\ api[a].pc = "idle"
    /\ LET userId == getUserId(ctx)
           id == Number(rawId)
           trimmedEmail == TrimmedEmail(body)
           q == [api[a] EXCEPT !.op = "POST /lists/:id/share",
                               !.userId = userId,
                               !.input = [id |-> id, email |-> trimmedEmail]]
       IN  api' = [api EXCEPT ![a] =
             IF userId = ""
               THEN ApiResponded(q, 401, "Unauthorized")
             ELSE IF ~IsFinite(id)
               THEN ApiResponded(q, 400, "Invalid list id")
             ELSE IF trimmedEmail = <<>> \/ ~simpleEmail(trimmedEmail)
               THEN ApiResponded(q, 400, "A valid email address is required")
             ELSE IF ~\E l \in lists : l.id = id
               THEN ApiResponded(q, 404, "List not found")
             ELSE [q EXCEPT !.pc = "shareCreateInvite"]]
    /\ UNCHANGED <<lists, tasks, invites, nextListId, nextTaskId, now, req, tx, mailer>>

\* lines 613-653: the sign-in check, the id check, the email check and the
\* lookup of the caller's list
ShareFindList(a, ctx, rawId, body) ==
    /\ api[a].pc = "idle"
    /\ LET userId == getUserId(ctx)
           id == Number(rawId)
           trimmedEmail == TrimmedEmail(body)
           q == [api[a] EXCEPT !.op = "POST /lists/:id/share",
                               !.userId = userId,
                               !.input = [id |-> id, email |-> trimmedEmail]]
       IN  api' = [api EXCEPT ![a] =
             IF userId = ""
               THEN ApiResponded(q, 401, "Unauthorized")
             ELSE IF ~IsFinite(id)
               THEN ApiResponded(q, 400, "Invalid list id")
             ELSE IF trimmedEmail = <<>> \/ ~simpleEmail(trimmedEmail)
               THEN ApiResponded(q, 400, "A valid email address is required")
             ELSE IF ~\E l \in lists : l.id = id /\ l.userId = userId
               THEN ApiResponded(q, 404, "List not found")
             ELSE [q EXCEPT !.pc = "shareCreateInvite"]]
    /\ UNCHANGED <<lists, tasks, invites, nextListId, nextTaskId, now, req, tx, mailer>>

\* the store without the unique index on the token
TokenNeverTaken(token) == FALSE

\* the unique index on the token of an invite (findUnique({ where: { token } })
\* of the redemption looks invites up by it): a row holds the token already
TokenTaken(token) == \E i \in invites : i.token = token

\* the invite row of lines 659-668 (id and createdAt are the store's
\* defaults: the next id and the time of the insert)
NewInvite(q, token) ==
    [id |-> Cardinality(invites) + 1, listId |-> q.input.id,
     inviterId |-> q.userId, email |-> q.input.email, token |-> token,
     role |-> "editor", status |-> "pending", createdAt |-> now]

\* the invite inserted only once a send function is found
ShareCreateInviteIfMailer(a, token) ==
    /\ api[a].pc = "shareCreateInvite"
    /\ ~TokenTaken(token)
    /\ LET q == api[a]
           invite == NewInvite(q, token)
       IN  IF HasSendMailFn(mailer)
             THEN /\ invites' = invites \cup {invite}
                  /\ api' = [api EXCEPT ![a] =
                        [q EXCEPT !.created = invite.id, !.pc = "shareSendMail"]]
             ELSE /\ invites' = invites
                  /\ api' = [api EXCEPT ![a] =
                        ApiResponded(q, 501, "Email delivery is not configured")]
    /\ UNCHANGED <<lists, tasks, nextListId, nextTaskId, now, req, tx, mailer>>

\* lines 655-687: the invite is inserted with a fresh token, then the send
\* function is looked for
ShareCreateInvite(a, token) ==
    /\ api[a].pc = "shareCreateInvite"
    /\ ~TokenTaken(token)
    /\ LET q == api[a]
           invite == NewInvite(q, token)
       IN  /\ invites' = invites \cup {invite}
           /\ api' = [api EXCEPT ![a] =
                IF HasSendMailFn(mailer)
                  THEN [q EXCEPT !.created = invite.id, !.pc = "shareSendMail"]
                  ELSE ApiResponded([q EXCEPT !.created = invite.id], 501,
                                    "Email delivery is not configured")]
    /\ UNCHANGED <<lists, tasks, nextListId, nextTaskId, now, req, tx, mailer>>

\* lines 659-668: the insert of an invite whose token is taken throws, and
\* asyncHandler (lines 26-30) passes the error on
ShareCreateInviteFails(a, token) ==
    /\ api[a].pc = "shareCreateInvite"
    /\ TokenTaken(token)
    /\ api' = [api EXCEPT ![a] = InternalError(api[a])]
    /\ UNCHANGED <<lists, tasks, invites, nextListId, nextTaskId, now, req, tx, mailer>>

\* lines 713-724 and 737-755: sendMailFn returns, the answer is 202
ShareSendMail(a) ==
    /\ api[a].pc = "shareSendMail"
    /\ LET q == api[a]
       IN  api' = [api EXCEPT ![a] =
             ApiResponded([q EXCEPT !.sends = q.sends + 1], 202, "")]
    /\ UNCHANGED <<lists, tasks, invites, nextListId, nextTaskId, now, req, tx, mailer>>

\* the catch block deleting the invite the request created
ShareSendMailThrowsRollsBack(a) ==
    /\ api[a].pc = "shareSendMail"
    /\ LET q == api[a]
       IN  /\ invites' = { i \in invites : i.id # q.created }
           /\ api' = [api EXCEPT ![a] =
                ApiResponded([q EXCEPT !.sends = q.sends + 1], 500,
                             "Failed to send invitation email")]
    /\ UNCHANGED <<lists, tasks, nextListId, nextTaskId, now, req, tx, mailer>>

\* lines 713-735: sendMailFn throws, the answer is 500
ShareSendMailThrows(a) ==
    /\ api[a].pc = "shareSendMail"
    /\ LET q == api[a]
       IN  api' = [api EXCEPT ![a] =
             ApiResponded([q EXCEPT !.sends = q.sends + 1], 500,
                          "Failed to send invitation email")]
    /\ UNCHANGED <<lists, tasks, invites, nextListId, nextTaskId, now, req, tx, mailer>>

----------------------------------------------------------------------------
(* The routes of the API router, in the order of their registration *)

SegBootstrap == <<"b","o","o","t","s","t","r","a","p">>
SegLists == <<"l","i","s","t","s">>
SegOrder == <<"o","r","d","e","r">>
SegShare == <<"s","h","a","r","e">>
SegCompleted == <<"c","o","m","p","l","e","t","e","d">>

\* the segment :id of a route's path: it matches any segment
ParamId == <<":","i","d">>

Routes ==
    << [method |-> "GET", path |-> <<SegBootstrap>>, op |-> "GET /bootstrap"],
       [method |-> "GET", path |-> <<SegLists>>, op |-> "GET /lists"],
       [method |-> "POST", path |-> <<SegLists>>, op |-> "POST /lists"],
       [method |-> "PUT", path |-> <<SegLists, ParamId>>, op |-> "PUT /lists/:id"],
       [method |-> "DELETE", path |-> <<SegLists, ParamId>>,
        op |-> "DELETE /lists/:id"],
       [method |-> "PUT", path |-> <<SegLists, SegOrder>>,
        op |-> "PUT /lists/order"],
       [method |-> "GET", path |-> <<>>, op |-> "GET /"],
       [method |-> "POST", path |-> <<>>, op |-> "POST /"],
       [method |-> "PUT", path |-> <<ParamId>>, op |-> "PUT /:id"],
       [method |-> "DELETE", path |-> <<ParamId>>, op |-> "DELETE /:id"],
       [method |-> "PUT", path |-> <<SegOrder>>, op |-> "PUT /order"],
       [method |-> "POST", path |-> <<SegLists, ParamId, SegShare>>,
        op |-> "POST /lists/:id/share"],
       [method |-> "DELETE", path |-> <<SegLists, ParamId, SegCompleted>>,
        op |-> "DELETE /lists/:id/completed"] >>

\* the route matches the request: same method, and segment by segment the
\* same text or a parameter
Matches(route, method, path) ==
    /\ route.method = method
    /\ Len(route.path) = Len(path)
    /\ \A i \in DOMAIN path : route.path[i] = ParamId \/ route.path[i] = path[i]

\* the first route that matches the request among the routes from the k-th
\* on, in the order of registration ("none" when no route matches: the
\* request is left to the host)
RECURSIVE FirstMatch(_, _, _)
FirstMatch(k, method, path) ==
    IF k > Len(Routes) THEN "none"
    ELSE IF Matches(Routes[k], method, path) THEN Routes[k].op
    ELSE FirstMatch(k + 1, method, path)

\* the route that handles a request
RouteOf(method, path) == FirstMatch(1, method, path)

\* lines 50-111 and 297-330: the handlers that only read (bootstrap, the
\* lists, the tasks without a listId in the query); found is the rows sent
\* with the response, findMany({ where: { userId } })
ReadRows(a, ctx, op) ==
    /\ api[a].pc = "idle"
    /\ LET userId == getUserId(ctx)
           q == [api[a] EXCEPT !.op = op, !.userId = userId]
           rows == [lists |-> IF op = "GET /" THEN {}
                              ELSE { l \in lists : l.userId = userId },
                    tasks |-> IF op = "GET /lists" THEN {}
                              ELSE { t \in tasks : t.userId = userId }]
       IN  api' = [api EXCEPT ![a] =
             IF userId = ""
               THEN ApiResponded(q, 401, "Unauthorized")
               ELSE [ApiResponded(q, 200, "") EXCEPT !.found = rows]]
    /\ UNCHANGED <<lists, tasks, invites, nextListId, nextTaskId, now, req, tx, mailer>>

\* no route of the router matches: the request goes on to the host
NoRoute(a) ==
    /\ api[a].pc = "idle"
    /\ api' = [api EXCEPT ![a] =
                 ApiResponded([api[a] EXCEPT !.op = "none"], 404, "")]
    /\ UNCHANGED <<lists, tasks, invites, nextListId, nextTaskId, now, req, tx, mailer>>

\* a request arrives at the router and the route that handles it runs up to
\* its first await
HttpRequest(a, method, path, ctx, body) ==
    \E op \in { RouteOf(method, path) } :
        CASE op = "POST /lists" -> CreateListCount(a, ctx, body)
          [] op = "PUT /lists/:id" -> UpdateListFind(a, ctx, path[2], body)
          [] op = "DELETE /lists/:id" -> DeleteListFind(a, ctx, path[2])
          [] op = "PUT /lists/order" -> ReorderListsFind(a, ctx, body)
          [] op = "POST /" -> CreateTaskFindList(a, ctx, body)
          [] op = "PUT /:id" -> UpdateTaskFind(a, ctx, path[1], body)
          [] op = "DELETE /:id" -> DeleteTaskFind(a, ctx, path[1])
          [] op = "PUT /order" -> ReorderTasksFind(a, ctx, body)
          [] op = "POST /lists/:id/share" -> ShareFindList(a, ctx, path[2], body)
          [] op = "DELETE /lists/:id/completed" ->
               DeleteCompletedFindList(a, ctx, path[2])
          [] op \in {"GET /bootstrap", "GET /lists", "GET /"} ->
               ReadRows(a, ctx, op)
          [] OTHER -> NoRoute(a)

----------------------------------------------------------------------------
(* Initial states and inputs of the API requests: OWNER owns lists 1 and 2 *)
(* and the tasks 1 to 3, STRANGER owns list 3 and task 4.                  *)

ApiContexts ==
    { [user |-> NULL, userId |-> "", session |-> NULL],
      [user |-> [id |-> OWNER, email |-> <<"o","@","x",".","y">>],
       userId |-> "", session |-> NULL],
      [user |-> [id |-> STRANGER, email |-> <<"s","@","x",".","y">>],
       userId |-> "", session |-> NULL] }

ApiLists ==
    { List(1, OWNER, <<"A">>, <<"a">>, 0),
      List(2, OWNER, <<"B">>, <<"b">>, 1),
      List(3, STRANGER, <<"C">>, <<"c">>, 0) }

\* the tasks at the start: three tasks in list 1, or two tasks in list 1
\* whose (position, id) order is not their id order and one task in list 2
ApiTaskSets ==
    { { Task(1, OWNER, 1, "t1", "null", 0, "null", FALSE, FALSE, 0),
        Task(2, OWNER, 1, "t2", "null", 0, "null", TRUE, FALSE, 1),
        Task(3, OWNER, 1, "t3", "null", 0, "null", FALSE, TRUE, 2),
        Task(4, STRANGER, 3, "t4", "null", 0, "null", FALSE, FALSE, 0) },
      { Task(1, OWNER, 1, "t1", "null", 0, "null", FALSE, FALSE, 1),
        Task(2, OWNER, 1, "t2", "null", 0, "null", TRUE, FALSE, 0),
        Task(3, OWNER, 2, "t3", "null", 0, "null", FALSE, TRUE, 0),
        Task(4, STRANGER, 3, "t4", "null", 0, "null", FALSE, FALSE, 0) } }

\* the values of :id and of the ids in a body: the ids 1 to 4 as the
\* request spells them, and the word order
RawIds == { DecimalString(n) : n \in 1..4 } \cup { SegOrder }

ListCreateBodies ==
    { [name |-> <<>>],
      [name |-> <<"N", " ", "n">>],
      [name |-> <<"N">>, slug |-> <<"s">>] }

ListUpdateBodies == { [name |-> <<"R">>], [slug |-> <<"r">>] }

ListOrderBodies ==
    { [listOrder |-> <<DecimalString(2), DecimalString(1)>>],
      [listOrder |-> <<DecimalString(2)>>],
      [listOrder |-> <<DecimalString(3), DecimalString(1)>>],
      [listOrder |-> <<SegOrder>>],
      [other |-> TRUE] }

TaskCreateBodies ==
    { [listId |-> DecimalString(1), title |-> "T"],
      [listId |-> DecimalString(1), title |-> ""],
      [title |-> "T"],
      [listId |-> DecimalString(3), title |-> "T", description |-> "d",
       starred |-> TRUE] }

TaskUpdateBodies ==
    { [completed |-> TRUE],
      [title |-> "U"],
      [position |-> DecimalString(7)],
      [position |-> SegOrder],
      [listId |-> DecimalString(1)],
      [listId |-> SegOrder] }

TaskOrderBodies ==
    { [listId |-> DecimalString(1),
       taskOrder |-> <<DecimalString(3), DecimalString(1), DecimalString(2)>>],
      [listId |-> DecimalString(2),
       taskOrder |-> <<DecimalString(1), DecimalString(2)>>],
      [listId |-> DecimalString(1), taskOrder |-> <<DecimalString(2)>>],
      [listId |-> DecimalString(1), taskOrder |-> <<DecimalString(4)>>],
      [listId |-> DecimalString(1), taskOrder |-> <<SegOrder>>],
      [taskOrder |-> <<DecimalString(1)>>] }

ShareBodies ==
    { [email |-> <<" ", "b", "@", "x", ".", "y", " ">>],
      [email |-> <<"b", "@", "x">>],
      [email |-> <<"b", " ", "@", "x", ".", "y">>],
      [other |-> TRUE] }

\* API requests are interchangeable: they arrive in the order of their
\* numbers, one at a time, each run from its first line to its response
ApiArrives(a) ==
    /\ \A o \in ApiRequests : o < a => api[o].pc # "idle"
    /\ \A o \in ApiRequests : ~ApiInFlight(o)

InitApi ==
    /\ lists = ApiLists
    /\ invites = {}
    /\ nextListId = 4
    /\ nextTaskId = 5
    /\ now = Now0
    /\ req = [r \in Requests |-> IdleRequest]
    /\ tx = [r \in Requests |-> EmptyTx]
    /\ api = [a \in ApiRequests |-> IdleApi]

----------------------------------------------------------------------------
(* The list and task handlers, each invoked as the router invokes it *)

InitCrud ==
    /\ InitApi
    /\ tasks \in ApiTaskSets
    /\ mailer = "undefined"

NextCrud ==
    \/ \E a \in ApiRequests, ctx \in ApiContexts, body \in ListCreateBodies :
         ApiArrives(a) /\ CreateListCount(a, ctx, body)
    \/ \E a \in ApiRequests : CreateListCreate(a)
    \/ \E a \in ApiRequests, ctx \in ApiContexts, rawId \in RawIds,
          body \in ListUpdateBodies :
         ApiArrives(a) /\ UpdateListFind(a, ctx, rawId, body)
    \/ \E a \in ApiRequests : UpdateListUpdate(a)
    \/ \E a \in ApiRequests, ctx \in ApiContexts, rawId \in RawIds :
         ApiArrives(a) /\ DeleteListFind(a, ctx, rawId)
    \/ \E a \in ApiRequests : DeleteListTransaction(a)
    \/ \E a \in ApiRequests : DeleteListTransactionFails(a)
    \/ \E a \in ApiRequests, ctx \in ApiContexts, body \in ListOrderBodies :
         ApiArrives(a) /\ ReorderListsFind(a, ctx, body)
    \/ \E a \in ApiRequests : ReorderListsTransaction(a)
    \/ \E a \in ApiRequests : ReorderListsTransactionFails(a)
    \/ \E a \in ApiRequests, ctx \in ApiContexts, body \in TaskCreateBodies :
         ApiArrives(a) /\ CreateTaskFindList(a, ctx, body)
    \/ \E a \in ApiRequests : CreateTaskCount(a)
    \/ \E a \in ApiRequests : CreateTaskCreate(a)
    \/ \E a \in ApiRequests, ctx \in ApiContexts, rawId \in RawIds,
          body \in TaskUpdateBodies :
         ApiArrives(a) /\ UpdateTaskFind(a, ctx, rawId, body)
    \/ \E a \in ApiRequests : UpdateTaskUpdate(a)
    \/ \E a \in ApiRequests, ctx \in ApiContexts, rawId \in RawIds :
         ApiArrives(a) /\ DeleteTaskFind(a, ctx, rawId)
    \/ \E a \in ApiRequests : DeleteTaskDelete(a)
    \/ \E a \in ApiRequests, ctx \in ApiContexts, body \in TaskOrderBodies :
         ApiArrives(a) /\ ReorderTasksFind(a, ctx, body)
    \/ \E a \in ApiRequests : ReorderTasksTransaction(a)
    \/ \E a \in ApiRequests : ReorderTasksTransactionFails(a)
    \/ \E a \in ApiRequests, ctx \in ApiContexts, rawId \in RawIds :
         ApiArrives(a) /\ DeleteCompletedFindList(a, ctx, rawId)
    \/ \E a \in ApiRequests : DeleteCompletedDeleteMany(a)

SpecCrud == InitCrud /\ [][NextCrud]_vars

----------------------------------------------------------------------------
(* The share handler, under each form of ctx.mailer *)

InitShare ==
    /\ InitApi
    /\ tasks = {}
    /\ mailer \in Mailers

NextShare ==
    \/ \E a \in ApiRequests, ctx \in ApiContexts, rawId \in RawIds,
          body \in ShareBodies :
         ApiArrives(a) /\ ShareFindList(a, ctx, rawId, body)
    \/ \E a \in ApiRequests, token \in ShareTokens : ShareCreateInvite(a, token)
    \/ \E a \in ApiRequests, token \in ShareTokens :
         ShareCreateInviteFails(a, token)
    \/ \E a \in ApiRequests : ShareSendMail(a)
    \/ \E a \in ApiRequests : ShareSendMailThrows(a)

SpecShare == InitShare /\ [][NextShare]_vars

----------------------------------------------------------------------------
(* The router: requests arrive with a method and a path *)

\* the requests sent to the router: one for every route, and one that no
\* route matches
HttpCalls ==
    { [method |-> "GET", path |-> <<SegBootstrap>>, body |-> [other |-> TRUE]],
      [method |-> "GET", path |-> <<SegLists>>, body |-> [other |-> TRUE]],
      [method |-> "POST", path |-> <<SegLists>>, body |-> [name |-> <<"N">>]],
      [method |-> "PUT", path |-> <<SegLists, DecimalString(1)>>,
       body |-> [name |-> <<"R">>]],
      [method |-> "DELETE", path |-> <<SegLists, DecimalString(2)>>,
       body |-> [other |-> TRUE]],
      [method |-> "PUT", path |-> <<SegLists, SegOrder>>,
       body |-> [listOrder |-> <<DecimalString(2), DecimalString(1)>>]],
      [method |-> "GET", path |-> <<>>, body |-> [other |-> TRUE]],
      [method |-> "POST", path |-> <<>>,
       body |-> [listId |-> DecimalString(1), title |-> "T"]],
      [method |-> "PUT", path |-> <<DecimalString(1)>>,
       body |-> [completed |-> TRUE]],
      [method |-> "DELETE", path |-> <<DecimalString(3)>>,
       body |-> [other |-> TRUE]],
      [method |-> "PUT", path |-> <<SegOrder>>,
       body |-> [listId |-> DecimalString(1),
                 taskOrder |-> <<DecimalString(2), DecimalString(1)>>]],
      [method |-> "POST", path |-> <<SegLists, DecimalString(1), SegShare>>,
       body |-> [email |-> <<"b", "@", "x", ".", "y">>]],
      [method |-> "DELETE", path |-> <<SegLists, DecimalString(1), SegCompleted>>,
       body |-> [other |-> TRUE]],
      [method |-> "PATCH", path |-> <<SegLists>>, body |-> [other |-> TRUE]] }

InitHttp ==
    /\ InitApi
    /\ tasks \in ApiTaskSets
    /\ mailer \in {"undefined", "function"}

\* the steps of the handlers after their first await (the reorder handlers
\* have none here: no request reaches them)
NextHttp ==
    \/ \E a \in ApiRequests, call \in HttpCalls, ctx \in ApiContexts :
         /\ ApiArrives(a)
         /\ HttpRequest(a, call.method, call.path, ctx, call.body)
    \/ \E a \in ApiRequests : CreateListCreate(a)
    \/ \E a \in ApiRequests : UpdateListUpdate(a)
    \/ \E a \in ApiRequests : DeleteListTransaction(a)
    \/ \E a \in ApiRequests : DeleteListTransactionFails(a)
    \/ \E a \in ApiRequests : CreateTaskCount(a)
    \/ \E a \in ApiRequests : CreateTaskCreate(a)
    \/ \E a \in ApiRequests : UpdateTaskUpdate(a)
    \/ \E a \in ApiRequests : DeleteTaskDelete(a)
    \/ \E a \in ApiRequests : DeleteCompletedDeleteMany(a)
    \/ \E a \in ApiRequests, token \in ShareTokens : ShareCreateInvite(a, token)
    \/ \E a \in ApiRequests, token \in ShareTokens :
         ShareCreateInviteFails(a, token)
    \/ \E a \in ApiRequests : ShareSendMail(a)
    \/ \E a \in ApiRequests : ShareSendMailThrows(a)

SpecHttp == InitHttp /\ [][NextHttp]_vars

----------------------------------------------------------------------------
(* Concurrent reorders: the requests interleave at every await *)

\* requests arrive in the order of their numbers, also while earlier ones
\* are being handled
ApiArrivesDuringOthers(a) == \A o \in ApiRequests : o < a => api[o].pc # "idle"

\* full orders of OWNER's lists
FullListOrders ==
    { [listOrder |-> <<DecimalString(2), DecimalString(1)>>],
      [listOrder |-> <<DecimalString(1), DecimalString(2)>>] }

\* full orders of the three tasks of list 1
FullTaskOrders ==
    { [listId |-> DecimalString(1),
       taskOrder |-> <<DecimalString(3), DecimalString(1), DecimalString(2)>>],
      [listId |-> DecimalString(1),
       taskOrder |-> <<DecimalString(2), DecimalString(3), DecimalString(1)>>] }

InitReorder ==
    /\ InitApi
    /\ tasks \in ApiTaskSets
    /\ mailer = "undefined"

NextReorder ==
    \/ \E a \in ApiRequests, ctx \in ApiContexts, body \in FullListOrders :
         ApiArrivesDuringOthers(a) /\ ReorderListsFind(a, ctx, body)
    \/ \E a \in ApiRequests : ReorderListsTransaction(a)
    \/ \E a \in ApiRequests : ReorderListsTransactionFails(a)
    \/ \E a \in ApiRequests, ctx \in ApiContexts, body \in FullTaskOrders :
         ApiArrivesDuringOthers(a) /\ ReorderTasksFind(a, ctx, body)
    \/ \E a \in ApiRequests : ReorderTasksTransaction(a)
    \/ \E a \in ApiRequests : ReorderTasksTransactionFails(a)

SpecReorder == InitReorder /\ [][NextReorder]_vars

----------------------------------------------------------------------------
(* Overlapping requests to the router: reorders and updates *)

OverlapCalls ==
    { [method |-> "PUT", path |-> <<SegLists, SegOrder>>, body |-> body]
      : body \in FullListOrders }
    \cup { [method |-> "PUT", path |-> <<SegOrder>>, body |-> body]
           : body \in FullTaskOrders }
    \cup { [method |-> "PUT", path |-> <<SegLists, DecimalString(1)>>,
            body |-> [name |-> <<"R">>]],
           [method |-> "PUT", path |-> <<DecimalString(1)>>,
            body |-> [completed |-> TRUE]] }

NextOverlap ==
    \/ \E a \in ApiRequests, call \in OverlapCalls, ctx \in ApiContexts :
         /\ ApiArrivesDuringOthers(a)
         /\ HttpRequest(a, call.method, call.path, ctx, call.body)
    \/ \E a \in ApiRequests : UpdateListUpdate(a)
    \/ \E a \in ApiRequests : UpdateTaskUpdate(a)

SpecOverlap == InitReorder /\ [][NextOverlap]_vars

----------------------------------------------------------------------------
(* A redemption followed by list and task requests of the inviter and of   *)
(* the recipient: OWNER's list 1 with two tasks is cloned, then the two    *)
(* accounts work on their lists.                                           *)

\* the accounts that present the token: the invited one and another one
RedeemContexts == { ctx \in Contexts : ctx.user # NULL }

\* the callers of the list and task handlers after the clone
AfterContexts ==
    { [user |-> [id |-> OWNER, email |-> <<"o","@","x",".","y">>],
       userId |-> "", session |-> NULL],
      [user |-> [id |-> RECIPIENT, email |-> <<"b","o","b">>],
       userId |-> "", session |-> NULL] }

Cloned == \E i \in invites : i.status = "accepted"

InitAfter ==
    /\ lists = { List(1, OWNER, <<"G">>, SlugG, 0) }
    /\ tasks = { Task(1, OWNER, 1, "A", "null", 0, "null", FALSE, FALSE, 1),
                 Task(2, OWNER, 1, "B", "note", 7, "weekly", TRUE, TRUE, 0) }
    /\ \E age \in InviteAges :
         invites = { [id |-> 1, listId |-> 1, inviterId |-> OWNER,
                      email |-> <<"B", "o", "b">>, token |-> "t1",
                      role |-> "editor", status |-> "pending",
                      createdAt |-> Now0 - age] }
    /\ nextListId = 2
    /\ nextTaskId = 3
    /\ now = Now0
    /\ req = [r \in Requests |-> IdleRequest]
    /\ tx = [r \in Requests |-> EmptyTx]
    /\ api = [a \in ApiRequests |-> IdleApi]
    /\ mailer = "undefined"

\* the token is presented while the invite is pending, one request at a
\* time; once a redemption has cloned the list, the inviter and the
\* recipient call the list and task handlers, one request at a time; the
\* requests name the source list 1 and the clone 2, the source task 1 and
\* the cloned task 3, and reorder the cloned tasks into the source list
NextAfter ==
    \/ \E r \in Requests, ctx \in RedeemContexts :
         /\ Quiet /\ Arrives(r) /\ ~Cloned
         /\ AcceptLookup(r, "t1", ctx)
    \/ \E r \in Requests : Accept(r)
    \/ \E l \in lists : Quiet /\ ~Cloned /\ DeleteList(OWNER, l.id)
    \/ \E a \in ApiRequests, ctx \in AfterContexts, rawId \in {DecimalString(1), DecimalString(2)} :
         Cloned /\ ApiArrives(a) /\ UpdateListFind(a, ctx, rawId, [name |-> <<"R">>])
    \/ \E a \in ApiRequests : UpdateListUpdate(a)
    \/ \E a \in ApiRequests, ctx \in AfterContexts, rawId \in {DecimalString(1), DecimalString(2)} :
         Cloned /\ ApiArrives(a) /\ DeleteListFind(a, ctx, rawId)
    \/ \E a \in ApiRequests : DeleteListTransaction(a)
    \/ \E a \in ApiRequests : DeleteListTransactionFails(a)
    \/ \E a \in ApiRequests, ctx \in AfterContexts, rawId \in {DecimalString(1), DecimalString(3)},
          body \in {[title |-> "U"], [listId |-> DecimalString(2)]} :
         Cloned /\ ApiArrives(a) /\ UpdateTaskFind(a, ctx, rawId, body)
    \/ \E a \in ApiRequests : UpdateTaskUpdate(a)
    \/ \E a \in ApiRequests, ctx \in AfterContexts,
          body \in {[listId |-> DecimalString(1),
                     taskOrder |-> <<DecimalString(4), DecimalString(3)>>]} :
         Cloned /\ ApiArrives(a) /\ ReorderTasksFind(a, ctx, body)
    \/ \E a \in ApiRequests : ReorderTasksTransaction(a)
    \/ \E a \in ApiRequests : ReorderTasksTransactionFails(a)

SpecAfter == InitAfter /\ [][NextAfter]_vars

----------------------------------------------------------------------------
(* Redemptions of an invite to a list of any name: the name is what POST   *)
(* /lists or PUT /lists/:id stored, the slug is empty after PUT            *)
(* /lists/:id with slug "".                                                *)

\* the names of up to MaxNameLen characters over an upper-case letter, a
\* lower-case letter, a digit, a space, a hyphen and another character
SlugNames ==
    UNION { [1..n -> {"A", "b", "1", " ", "-", "!"}] : n \in 0..MaxNameLen }

InitSlug ==
    /\ \E name \in SlugNames, slug \in {<<>>, SlugG} :
         lists = { List(1, OWNER, name, slug, 0) }
    /\ tasks = { Task(1, OWNER, 1, "A", "null", 0, "null", FALSE, FALSE, 0) }
    /\ invites = { [id |-> 1, listId |-> 1, inviterId |-> OWNER,
                    email |-> <<"B", "o", "b">>, token |-> "t1",
                    role |-> "editor", status |-> "pending",
                    createdAt |-> Now0] }
    /\ nextListId = 2
    /\ nextTaskId = 2
    /\ now = Now0
    /\ req = [r \in Requests |-> IdleRequest]
    /\ tx = [r \in Requests |-> EmptyTx]
    /\ api = [a \in ApiRequests |-> IdleApi]
    /\ mailer = "undefined"

\* the invited account presents the token, one request at a time
NextSlug ==
    \/ \E r \in Requests, ctx \in Contexts :
         /\ Quiet /\ Arrives(r) /\ getUserId(ctx) = RECIPIENT
         /\ AcceptLookup(r, "t1", ctx)
    \/ \E r \in Requests : AcceptFindSourceList(r)
    \/ \E r \in Requests : AcceptFindTasks(r)
    \/ \E r \in Requests : TxCount(r)
    \/ \E r \in Requests : TxProbe(r)
    \/ \E r \in Requests : TxCreateList(r)
    \/ \E r \in Requests : TxCreateMany(r)
    \/ \E r \in Requests : TxUpdateInviteAndCommit(r)
    \/ \E r \in Requests : TxFail(r)

SpecSlug == InitSlug /\ [][NextSlug]_vars

----------------------------------------------------------------------------
(* Three accounts: OWNER has invited RECIPIENT to list 1, STRANGER owns    *)
(* list 2; list and task requests and redemptions, one at a time.          *)

InitIsolation ==
    /\ lists = { List(1, OWNER, <<"G">>, SlugG, 0),
                 List(2, STRANGER, <<"C">>, <<"c">>, 0) }
    /\ tasks = { Task(1, OWNER, 1, "A", "null", 0, "null", FALSE, FALSE, 0),
                 Task(2, STRANGER, 2, "S", "null", 0, "null", FALSE, FALSE, 0) }
    /\ \E age \in InviteAges :
         invites = { [id |-> 1, listId |-> 1, inviterId |-> OWNER,
                      email |-> <<"B", "o", "b">>, token |-> "t1",
                      role |-> "editor", status |-> "pending",
                      createdAt |-> Now0 - age] }
    /\ nextListId = 3
    /\ nextTaskId = 3
    /\ now = Now0
    /\ req = [r \in Requests |-> IdleRequest]
    /\ tx = [r \in Requests |-> EmptyTx]
    /\ api = [a \in ApiRequests |-> IdleApi]
    /\ mailer = "undefined"

NextIsolation ==
    \/ \E r \in Requests, ctx \in RedeemContexts :
         /\ Quiet /\ Arrives(r) /\ \A a \in ApiRequests : ~ApiInFlight(a)
         /\ AcceptLookup(r, "t1", ctx)
    \/ \E r \in Requests : Accept(r)
    \/ \E a \in ApiRequests, ctx \in ApiContexts, op \in {"GET /lists", "GET /"} :
         Quiet /\ ApiArrives(a) /\ ReadRows(a, ctx, op)
    \/ \E a \in ApiRequests, ctx \in ApiContexts :
         /\ Quiet /\ ApiArrives(a)
         /\ CreateTaskFindList(a, ctx, [listId |-> DecimalString(1), title |-> "T"])
    \/ \E a \in ApiRequests : CreateTaskCount(a)
    \/ \E a \in ApiRequests : CreateTaskCreate(a)
    \/ \E a \in ApiRequests, ctx \in ApiContexts,
          rawId \in {DecimalString(1), DecimalString(2)} :
         /\ Quiet /\ ApiArrives(a)
         /\ UpdateTaskFind(a, ctx, rawId, [listId |-> DecimalString(1)])
    \/ \E a \in ApiRequests : UpdateTaskUpdate(a)
    \/ \E a \in ApiRequests, ctx \in ApiContexts :
         Quiet /\ ApiArrives(a) /\ DeleteListFind(a, ctx, DecimalString(1))
    \/ \E a \in ApiRequests : DeleteListTransaction(a)
    \/ \E a \in ApiRequests : DeleteListTransactionFails(a)

SpecIsolation == InitIsolation /\ [][NextIsolation]_vars

----------------------------------------------------------------------------
(* The list and task handlers of the web router, src/routes/web/index.js   *)
(* lines 63-390.  A request to them is held in a slot of api like a        *)
(* request to the API router; op names the route below /api/tasks.         *)

(* A handler that throws is passed to next by asyncHandler, lines 26-30,    *)
(* and the host application answers 500.                                   *)

\* the list handlers up to their first await: GET /api/tasks/lists (lines
\* 63-74), POST /api/tasks/lists (76-85), PUT /api/tasks/lists/:id
\* (100-112), DELETE /api/tasks/lists/:id (128-138), PUT
\* /api/tasks/lists/order (149-168)
WebListHandler(a, ctx, op, rawId, body) ==
    /\ api[a].pc = "idle"
    /\ LET userId == getUserId(ctx)
           id == Number(rawId)
           mine == { l \in lists : l.userId = userId }
           q == [api[a] EXCEPT !.op = op, !.userId = userId]
       IN  api' = [api EXCEPT ![a] =
             IF userId = "" THEN ApiResponded(q, 401, "Unauthorized")
             ELSE CASE op = "GET /lists" ->
                    [ApiResponded(q, 200, "") EXCEPT
                       !.found = [lists |-> mine, tasks |-> {}]]
               [] op = "POST /lists" ->
                    IF "name" \notin DOMAIN body \/ body.name = <<>>
                      THEN ApiResponded(q, 400, "name is required")
                      ELSE [q EXCEPT !.pc = "createList", !.input = body,
                                     !.found = Cardinality(mine)]
               [] op = "PUT /lists/:id" ->
                    IF ~IsFinite(id) THEN ApiResponded(q, 400, "Invalid id")
                    ELSE IF \A l \in mine : l.id # id
                      THEN ApiResponded(q, 404, "List not found")
                    ELSE [q EXCEPT !.pc = "updateList",
                                   !.input = [id |-> id, body |-> body],
                                   !.found = CHOOSE l \in mine : l.id = id]
               [] op = "DELETE /lists/:id" ->
                    IF ~IsFinite(id) THEN ApiResponded(q, 400, "Invalid id")
                    ELSE IF \A l \in mine : l.id # id
                      THEN ApiResponded(q, 404, "List not found")
                    ELSE [q EXCEPT !.pc = "deleteListTx", !.input = [id |-> id]]
               [] op = "PUT /lists/order" ->
                    IF \/ "listOrder" \notin DOMAIN body
                       \/ \E i \in DOMAIN body.listOrder :
                            ~IsFinite(Number(body.listOrder[i]))
                      THEN ApiResponded(q, 400, "listOrder must be an array of ids")
                      ELSE LET ids == [ i \in DOMAIN body.listOrder |->
                                          Number(body.listOrder[i]) ]
                               missing == { i \in DOMAIN ids :
                                            \A l \in mine : l.id # ids[i] }
                           IN  IF missing # {}
                                 THEN ApiResponded(q, 400,
                                        "Some lists do not exist or do not belong to user")
                                 ELSE [q EXCEPT !.pc = "reorderListsTx",
                                                !.input = [ids |-> ids]]]
    /\ UNCHANGED <<lists, tasks, invites, nextListId, nextTaskId, now, req, tx, mailer>>

\* the list handlers after their first await: taskList.create (lines
\* 87-96), taskList.update (114-124), the transaction of task.deleteMany
\* and taskList.delete (140-145), the transaction of the position updates
\* (170-179); a statement that throws (a row that is gone, a transaction
\* that is rolled back) leaves the store as it was
WebListStep(a) ==
    LET q == api[a]
        ok(code) == api' = [api EXCEPT ![a] = ApiResponded(q, code, "")]
        throws == /\ api' = [api EXCEPT ![a] = ApiResponded(q, 500, "")]
                  /\ UNCHANGED <<lists, tasks, nextListId>>
    IN  /\ \/ /\ q.pc = "createList"
              /\ LET name == q.input.name
                     slug == IF "slug" \in DOMAIN q.input /\ q.input.slug # <<>>
                               THEN q.input.slug
                               ELSE ReplaceSpaceRuns(toLowerCase(name))
                 IN  lists' = lists \cup
                       { [id |-> nextListId, userId |-> q.userId, name |-> name,
                          slug |-> slug, position |-> q.found] }
              /\ nextListId' = nextListId + 1
              /\ api' = [api EXCEPT ![a] =
                           ApiResponded([q EXCEPT !.created = nextListId], 201, "")]
              /\ UNCHANGED tasks
           \/ /\ q.pc = "updateList"
              /\ IF \E l \in lists : l.id = q.input.id
                   THEN /\ lists' =
                             { IF l.id # q.input.id THEN l
                               ELSE [l EXCEPT
                                       !.name = IF "name" \in DOMAIN q.input.body
                                                  THEN q.input.body.name
                                                  ELSE q.found.name,
                                       !.slug = IF "slug" \in DOMAIN q.input.body
                                                  THEN q.input.body.slug
                                                  ELSE q.found.slug]
                               : l \in lists }
                        /\ ok(200)
                        /\ UNCHANGED <<tasks, nextListId>>
                   ELSE throws
           \/ /\ q.pc = "deleteListTx"
              /\ \/ /\ \E l \in lists : l.id = q.input.id
                    /\ tasks' = tasks \ { t \in tasks : /\ t.listId = q.input.id
                                                        /\ t.userId = q.userId }
                    /\ lists' = lists \ { l \in lists : l.id = q.input.id }
                    /\ ok(200)
                    /\ UNCHANGED nextListId
                 \/ throws
           \/ /\ q.pc = "reorderListsTx"
              /\ \/ /\ \A i \in DOMAIN q.input.ids :
                         \E l \in lists : l.id = q.input.ids[i]
                    /\ lists' =
                         { IF \A i \in DOMAIN q.input.ids : q.input.ids[i] # l.id
                             THEN l
                             ELSE LET last == CHOOSE i \in DOMAIN q.input.ids :
                                                /\ q.input.ids[i] = l.id
                                                /\ \A j \in DOMAIN q.input.ids :
                                                     q.input.ids[j] = l.id => j <= i
                                  IN  [l EXCEPT !.position = last - 1]
                           : l \in lists }
                    /\ ok(200)
                    /\ UNCHANGED <<tasks, nextListId>>
                 \/ throws
        /\ UNCHANGED <<invites, nextTaskId, now, req, tx, mailer>>

\* the task handlers up to their first await: GET /api/tasks without a
\* listId in the query (lines 183-203), POST /api/tasks (206-230),
\* PUT /api/tasks/:id (254-264; the checks of listId and position of lines
\* 279-305 follow the lookup and precede the next await),
\* DELETE /api/tasks/:id (316-326), PUT /api/tasks/order (334-358),
\* DELETE /api/tasks/lists/:id/completed (373-383)
WebTaskHandler(a, ctx, op, rawId, body) ==
    /\ api[a].pc = "idle"
    /\ LET userId == getUserId(ctx)
           id == Number(rawId)
           mine == { t \in tasks : t.userId = userId }
           parsedListId == IF "listId" \in DOMAIN body
                             THEN Number(body.listId) ELSE NaN
           q == [api[a] EXCEPT !.op = op, !.userId = userId]
       IN  api' = [api EXCEPT ![a] =
             IF userId = "" THEN ApiResponded(q, 401, "Unauthorized")
             ELSE CASE op = "GET /" ->
                    [ApiResponded(q, 200, "") EXCEPT
                       !.found = [lists |-> {}, tasks |-> mine]]
               [] op = "POST /" ->
                    IF ~IsFinite(parsedListId)
                      THEN ApiResponded(q, 400,
                             "listId is required and must be a number")
                    ELSE IF "title" \notin DOMAIN body \/ body.title = ""
                      THEN ApiResponded(q, 400, "title is required")
                    ELSE IF \A l \in lists :
                              ~(l.id = parsedListId /\ l.userId = userId)
                      THEN ApiResponded(q, 404, "List not found")
                    ELSE [q EXCEPT !.pc = "createTaskCount",
                                   !.input = [listId |-> parsedListId,
                                              body |-> body]]
               [] op = "PUT /:id" ->
                    LET fields == DOMAIN body \cap
                                    {"listId", "title", "description", "dueDate",
                                     "recurringConfig", "completed", "starred",
                                     "position"}
                        data == [ f \in fields |->
                                    IF f = "listId" \/ f = "position"
                                      THEN Number(body[f]) ELSE body[f] ]
                    IN  IF ~IsFinite(id) THEN ApiResponded(q, 400, "Invalid id")
                        ELSE IF \A t \in mine : t.id # id
                          THEN ApiResponded(q, 404, "Task not found")
                        ELSE IF "listId" \in fields /\ ~IsFinite(data.listId)
                          THEN ApiResponded(q, 400, "Invalid listId")
                        ELSE IF "position" \in fields /\ ~IsFinite(data.position)
                          THEN ApiResponded(q, 400, "Invalid position")
                        ELSE [q EXCEPT !.pc = "updateTask",
                                       !.input = [id |-> id, data |-> data]]
               [] op = "DELETE /:id" ->
                    IF ~IsFinite(id) THEN ApiResponded(q, 400, "Invalid id")
                    ELSE IF \A t \in mine : t.id # id
                      THEN ApiResponded(q, 404, "Task not found")
                    ELSE [q EXCEPT !.pc = "deleteTask", !.input = [id |-> id]]
               [] op = "PUT /order" ->
                    IF ~IsFinite(parsedListId)
                      THEN ApiResponded(q, 400,
                             "listId is required and must be a number")
                    ELSE IF \/ "taskOrder" \notin DOMAIN body
                            \/ \E i \in DOMAIN body.taskOrder :
                                 ~IsFinite(Number(body.taskOrder[i]))
                      THEN ApiResponded(q, 400, "taskOrder must be an array of ids")
                    ELSE LET ids == [ i \in DOMAIN body.taskOrder |->
                                        Number(body.taskOrder[i]) ]
                             missing == { i \in DOMAIN ids :
                                          \A t \in mine : t.id # ids[i] }
                         IN  IF missing # {}
                               THEN ApiResponded(q, 400,
                                      "Some tasks do not exist or do not belong to user")
                               ELSE [q EXCEPT !.pc = "reorderTasksTx",
                                              !.input = [listId |-> parsedListId,
                                                         ids |-> ids]]
               [] op = "DELETE /lists/:id/completed" ->
                    IF ~IsFinite(id) THEN ApiResponded(q, 400, "Invalid list id")
                    ELSE IF \A l \in lists : ~(l.id = id /\ l.userId = userId)
                      THEN ApiResponded(q, 404, "List not found")
                    ELSE [q EXCEPT !.pc = "deleteCompleted",
                                   !.input = [listId |-> id]]]
    /\ UNCHANGED <<lists, tasks, invites, nextListId, nextTaskId, now, req, tx, mailer>>

\* the task handlers after their first await: task.count (lines 232-234)
\* and task.create (236-250), task.update (307-312), task.delete (328),
\* the transaction of the listId and position updates (360-369),
\* task.deleteMany (385-389); a statement that throws leaves the store as
\* it was
WebTaskStep(a) ==
    LET q == api[a]
        ok(code) == api' = [api EXCEPT ![a] = ApiResponded(q, code, "")]
        throws == /\ api' = [api EXCEPT ![a] = ApiResponded(q, 500, "")]
                  /\ UNCHANGED <<tasks, nextTaskId>>
    IN  /\ \/ /\ q.pc = "createTaskCount"
              /\ api' = [api EXCEPT ![a] =
                           [q EXCEPT !.pc = "createTask",
                                     !.found = Cardinality(
                                       { t \in tasks : /\ t.userId = q.userId
                                                       /\ t.listId = q.input.listId })]]
              /\ UNCHANGED <<tasks, nextTaskId>>
           \/ /\ q.pc = "createTask"
              /\ LET body == q.input.body
                 IN  tasks' = tasks \cup
                       { [id |-> nextTaskId, userId |-> q.userId,
                          listId |-> q.input.listId, title |-> body.title,
                          description |-> IF "description" \in DOMAIN body
                                            THEN body.description ELSE "null",
                          dueDate |-> IF "dueDate" \in DOMAIN body
                                        THEN body.dueDate ELSE 0,
                          recurringConfig |-> IF "recurringConfig" \in DOMAIN body
                                                THEN body.recurringConfig
                                                ELSE "null",
                          completed |-> FALSE,
                          starred |-> ("starred" \in DOMAIN body /\ body.starred),
                          position |-> q.found] }
              /\ nextTaskId' = nextTaskId + 1
              /\ api' = [api EXCEPT ![a] =
                           ApiResponded([q EXCEPT !.created = nextTaskId], 201, "")]
           \/ /\ q.pc = "updateTask"
              /\ IF \E t \in tasks : t.id = q.input.id
                   THEN /\ tasks' =
                             { IF t.id # q.input.id THEN t
                               ELSE [ f \in DOMAIN t |->
                                        IF f \in DOMAIN q.input.data
                                          THEN q.input.data[f] ELSE t[f] ]
                               : t \in tasks }
                        /\ ok(200)
                        /\ UNCHANGED nextTaskId
                   ELSE throws
           \/ /\ q.pc = "deleteTask"
              /\ IF \E t \in tasks : t.id = q.input.id
                   THEN /\ tasks' = tasks \ { t \in tasks : t.id = q.input.id }
                        /\ ok(200)
                        /\ UNCHANGED nextTaskId
                   ELSE throws
           \/ /\ q.pc = "reorderTasksTx"
              /\ \/ /\ \A i \in DOMAIN q.input.ids :
                         \E t \in tasks : t.id = q.input.ids[i]
                    /\ tasks' =
                         { IF \A i \in DOMAIN q.input.ids : q.input.ids[i] # t.id
                             THEN t
                             ELSE LET last == CHOOSE i \in DOMAIN q.input.ids :
                                                /\ q.input.ids[i] = t.id
                                                /\ \A j \in DOMAIN q.input.ids :
                                                     q.input.ids[j] = t.id => j <= i
                                  IN  [t EXCEPT !.listId = q.input.listId,
                                                !.position = last - 1]
                           : t \in tasks }
                    /\ ok(200)
                    /\ UNCHANGED nextTaskId
                 \/ throws
           \/ /\ q.pc = "deleteCompleted"
              /\ tasks' = tasks \ { t \in tasks : /\ t.userId = q.userId
                                                  /\ t.listId = q.input.listId
                                                  /\ t.completed }
              /\ ok(200)
              /\ UNCHANGED nextTaskId
        /\ UNCHANGED <<lists, invites, nextListId, now, req, tx, mailer>>

----------------------------------------------------------------------------
(* One request to a list or task handler, sent to the API router or to the *)
(* web router, over each store: the lists and tasks of InitCrud, and the   *)
(* same with STRANGER's task 4 moved into OWNER's list 1 by PUT /4.        *)

InitBoth ==
    /\ InitApi
    /\ \E ts \in ApiTaskSets :
         \/ tasks = ts
         \/ tasks = { IF t.id = 4 THEN [t EXCEPT !.listId = 1] ELSE t : t \in ts }
    /\ mailer = "undefined"

NextBoth ==
    \/ \E a \in ApiRequests, ctx \in ApiContexts :
         /\ ApiArrives(a)
         /\ \A o \in ApiRequests : api[o].pc = "idle"
         /\ \/ \E op \in {"GET /lists", "GET /"} : ReadRows(a, ctx, op)
            \/ WebListHandler(a, ctx, "GET /lists", <<>>, [other |-> TRUE])
            \/ WebTaskHandler(a, ctx, "GET /", <<>>, [other |-> TRUE])
            \/ \E body \in ListCreateBodies :
                 \/ CreateListCount(a, ctx, body)
                 \/ WebListHandler(a, ctx, "POST /lists", <<>>, body)
            \/ \E rawId \in RawIds, body \in ListUpdateBodies :
                 \/ UpdateListFind(a, ctx, rawId, body)
                 \/ WebListHandler(a, ctx, "PUT /lists/:id", rawId, body)
            \/ \E rawId \in RawIds :
                 \/ DeleteListFind(a, ctx, rawId)
                 \/ WebListHandler(a, ctx, "DELETE /lists/:id", rawId,
                                   [other |-> TRUE])
            \/ \E body \in ListOrderBodies :
                 \/ ReorderListsFind(a, ctx, body)
                 \/ WebListHandler(a, ctx, "PUT /lists/order", <<>>, body)
            \/ \E body \in TaskCreateBodies :
                 \/ CreateTaskFindList(a, ctx, body)
                 \/ WebTaskHandler(a, ctx, "POST /", <<>>, body)
            \/ \E rawId \in RawIds, body \in TaskUpdateBodies :
                 \/ UpdateTaskFind(a, ctx, rawId, body)
                 \/ WebTaskHandler(a, ctx, "PUT /:id", rawId, body)
            \/ \E rawId \in RawIds :
                 \/ DeleteTaskFind(a, ctx, rawId)
                 \/ WebTaskHandler(a, ctx, "DELETE /:id", rawId, [other |-> TRUE])
            \/ \E body \in TaskOrderBodies :
                 \/ ReorderTasksFind(a, ctx, body)
                 \/ WebTaskHandler(a, ctx, "PUT /order", <<>>, body)
            \/ \E rawId \in RawIds :
                 \/ DeleteCompletedFindList(a, ctx, rawId)
                 \/ WebTaskHandler(a, ctx, "DELETE /lists/:id/completed", rawId,
                                   [other |-> TRUE])
    \/ \E a \in ApiRequests : CreateListCreate(a)
    \/ \E a \in ApiRequests : UpdateListUpdate(a)
    \/ \E a \in ApiRequests : DeleteListTransaction(a)
    \/ \E a \in ApiRequests : DeleteListTransactionFails(a)
    \/ \E a \in ApiRequests : ReorderListsTransaction(a)
    \/ \E a \in ApiRequests : ReorderListsTransactionFails(a)
    \/ \E a \in ApiRequests : CreateTaskCount(a)
    \/ \E a \in ApiRequests : CreateTaskCreate(a)
    \/ \E a \in ApiRequests : UpdateTaskUpdate(a)
    \/ \E a \in ApiRequests : DeleteTaskDelete(a)
    \/ \E a \in ApiRequests : ReorderTasksTransaction(a)
    \/ \E a \in ApiRequests : ReorderTasksTransactionFails(a)
    \/ \E a \in ApiRequests : DeleteCompletedDeleteMany(a)
    \/ \E a \in ApiRequests : WebListStep(a)
    \/ \E a \in ApiRequests : WebTaskStep(a)

SpecBoth == InitBoth /\ [][NextBoth]_vars

----------------------------------------------------------------------------
(* Properties of the redemption *)

Code(r) == req[r].resp.code

InviteOf(r) == req[r].invite

\* the stored status of the invite request r looked up
StatusOfInvite(id) == (CHOOSE i \in invites : i.id = id).status

\* the lists in the store that redemptions of invite id have cloned
ClonesOf(id) ==
    { l \in lists : \E r \in Requests :
        /\ Code(r) = 200
        /\ InviteOf(r).id = id
        /\ req[r].clonedList = l }

\* the step in which request r arrives with the given token and context and
\* gets the result of the invite lookup
LooksUp(r, token, ctx) ==
    /\ req[r].pc = "idle"
    /\ req'[r].pc # "idle"
    /\ AcceptLookup(r, token, ctx)

\* C1: when one redemption of a token has succeeded and a second redemption
\* of that token starts after it, the second is answered 409 'already
\* accepted' at once and the store is left as it is: no List row and no
\* Task row is created.
C1_SecondRedemptionAlreadyAccepted ==
    [][\A r \in Requests, token \in Tokens, ctx \in Contexts :
         ( /\ \E o \in Requests : Code(o) = 200 /\ InviteOf(o).token = token
           /\ LooksUp(r, token, ctx) )
         => /\ req'[r].pc = "done"
            /\ req'[r].resp = [code |-> 409, message |-> "Invitation already accepted"]
            /\ req'[r].clonedList = NULL
            /\ store' = store
            /\ tx' = tx]_vars

\* a second redemption was answered 409 after a first one had cloned the list
C1_Witness ==
    \E o, r \in Requests :
        /\ Code(o) = 200
        /\ Code(r) = 409
        /\ InviteOf(r).id = InviteOf(o).id
        /\ Cardinality(ClonesOf(InviteOf(o).id)) = 1

\* C2: whatever the interleaving of the redemption requests of one token,
\* at most one cloned list exists for the invite.
C2_AtMostOneClonePerInvite ==
    \A i \in invites : Cardinality(ClonesOf(i.id)) <= 1

\* C3: the status of an invite changes only from pending to accepted or from
\* pending to revoked; an accepted or revoked invite keeps its status.
C3_StatusOnlyLeavesPending ==
    [][\A i \in invites, j \in invites' :
         (i.id = j.id /\ i.status # j.status)
         => i.status = "pending" /\ j.status \in {"accepted", "revoked"}]_vars

\* C4: when a statement of the clone transaction fails, the request ends
\* with no List row and no Task row of its own in the store (none of the
\* rows it had inserted), the store as it was, and the invite still pending.
C4_FailedCloneLeavesNothing ==
    [][\A r \in Requests :
         (req[r].pc \in TxPcs /\ req'[r].resp.code = 500)
         => /\ lists' = lists
            /\ tasks' = tasks
            /\ invites' = invites
            /\ \A i \in invites' : i.id = req[r].invite.id => i.status = "pending"
            /\ req[r].clonedList # NULL =>
                 /\ \A l \in lists' : l.id # req[r].clonedList.id
                 /\ \A t \in tasks' : t.listId # req[r].clonedList.id
            /\ tx'[r] = EmptyTx]_vars

\* a redemption failed after it had inserted the list, and a later
\* redemption of the same token succeeded
C4_Witness ==
    \E o, r \in Requests :
        /\ Code(o) = 500
        /\ req[o].clonedList # NULL
        /\ Code(r) = 200
        /\ InviteOf(r).id = InviteOf(o).id
        /\ StatusOfInvite(InviteOf(o).id) = "accepted"

\* the step in which request r's transaction commits
Commits(r) == req[r].pc = "txUpdateInvite" /\ req'[r].resp.code = 200

\* the slugs of the lists a user owns
SlugsOf(userId) == { l.slug : l \in { m \in lists : m.userId = userId } }

\* candidate, or candidate-k for the least k >= 2 that is free
ResolvedSlug(candidate, used) ==
    IF candidate \notin used THEN candidate
    ELSE LET k == CHOOSE k \in 2..(Cardinality(used) + 2) :
                    /\ SuffixedSlug(candidate, k) \notin used
                    /\ \A j \in 2..(k - 1) : SuffixedSlug(candidate, j) \in used
         IN  SuffixedSlug(candidate, k)

\* task c is a copy of task s
CopyOf(c, s) ==
    /\ c.title = s.title
    /\ c.description = s.description
    /\ c.dueDate = s.dueDate
    /\ c.recurringConfig = s.recurringConfig
    /\ c.completed = s.completed
    /\ c.starred = s.starred
    /\ c.position = s.position

\* C5: a successful redemption adds exactly one List row, owned by the
\* redeeming user, with the source list's name, the resolved slug and the
\* position equal to the number of lists the user owned; it adds exactly one
\* Task row per source task, owned by that user, attached to the new list
\* and equal to the source task in title, description, dueDate,
\* recurringConfig, completed, starred and position; it changes and removes
\* no row, and the invite becomes accepted.
C5_CloneCopiesListAndTasks ==
    [][\A r \in Requests :
         Commits(r) =>
           LET userId == getUserId(req[r].ctx)
               source == CHOOSE l \in lists : l.id = req[r].invite.listId
               sourceTasks == { t \in tasks : t.listId = source.id }
               newLists == lists' \ lists
               newTasks == tasks' \ tasks
           IN  /\ lists \subseteq lists'
               /\ tasks \subseteq tasks'
               /\ Cardinality(newLists) = 1
               /\ \A n \in newLists :
                    /\ n.userId = userId
                    /\ n.name = source.name
                    /\ n.slug = ResolvedSlug(req[r].baseSlug, SlugsOf(userId))
                    /\ n.position =
                         Cardinality({ l \in lists : l.userId = userId })
                    /\ \A l \in lists : l.id # n.id
                    /\ \A c \in newTasks : c.userId = userId /\ c.listId = n.id
               /\ Cardinality(newTasks) = Cardinality(sourceTasks)
               /\ \A t \in sourceTasks :
                    Cardinality({ c \in newTasks : CopyOf(c, t) }) = 1
               /\ \A c \in newTasks, t \in tasks : c.id # t.id
               /\ \A i \in invites' :
                    i.id = req[r].invite.id => i.status = "accepted"]_vars

\* the recipient owned a list with slug g; the clone has slug g-2 and the
\* two source tasks copied, the completed one too
C5_Witness ==
    \E r \in Requests :
        /\ Code(r) = 200
        /\ req[r].clonedList \in lists
        /\ req[r].clonedList.slug = SuffixedSlug(SlugG, 2)
        /\ req[r].clonedList.userId = RECIPIENT
        /\ Cardinality({ t \in tasks : t.listId = req[r].clonedList.id }) = 2
        /\ \E t \in tasks :
             t.listId = req[r].clonedList.id /\ t.title = "B" /\ t.completed

\* C6: the slug of the cloned list is the candidate slug when the recipient
\* owns no list with it; otherwise it is candidate-k for the least k >= 2
\* such that the recipient owns no list with slug candidate-k.  It is never
\* the slug of a list the recipient already owns.
C6_SlugIsFirstFree ==
    [][\A r \in Requests :
         Commits(r) =>
           LET used == SlugsOf(getUserId(req[r].ctx))
               candidate == req[r].baseSlug
               slug == req'[r].clonedList.slug
           IN  /\ req'[r].clonedList \in lists'
               /\ candidate \notin used => slug = candidate
               /\ candidate \in used =>
                    \E k \in 2..(Cardinality(used) + 2) :
                      /\ slug = SuffixedSlug(candidate, k)
                      /\ \A j \in 2..(k - 1) : SuffixedSlug(candidate, j) \in used
               /\ slug \notin used]_vars

\* the recipient owned lists g and g-2, and the clone got g-3
C6_Witness ==
    \E r \in Requests :
        /\ Code(r) = 200
        /\ req[r].clonedList \in lists
        /\ req[r].clonedList.slug = SuffixedSlug(SlugG, 3)
        /\ \E l \in lists : l.userId = RECIPIENT /\ l.slug = SlugG
        /\ \E l \in lists : l.userId = RECIPIENT /\ l.slug = SuffixedSlug(SlugG, 2)

\* the step in which request r gets the result of the source list lookup,
\* and the list exists
FindsSourceList(r) ==
    /\ req[r].pc = "findSourceList"
    /\ req'[r] # req[r]
    /\ \E l \in lists : l.id = req[r].invite.listId

\* C7: when the redemption of a pending invite reaches the age check (the
\* caller is signed in with the invited email and the source list exists),
\* an invite created 31 or more days ago is revoked and answered 410
\* 'expired' with no List or Task created, and an invite not older than 30
\* days goes on to the clone; nothing else is answered 'expired'.
C7_ExpiredInviteRevoked ==
    [][\A r \in Requests :
         /\ (FindsSourceList(r) /\ ~EmailMismatch(req[r].ctx, req[r].invite))
            => /\ now - req[r].invite.createdAt >= 31 * DaySeconds
                  => req'[r].pc = "revokeExpired"
               /\ now - req[r].invite.createdAt <= 30 * DaySeconds
                  => req'[r].pc = "findTasks"
         /\ (req[r].pc = "revokeExpired" /\ req'[r] # req[r])
            => /\ req'[r].pc = "done"
               /\ req'[r].resp = [code |-> 410, message |-> "Invitation expired"]
               /\ req'[r].clonedList = NULL
               /\ \A i \in invites' :
                    i.id = req[r].invite.id => i.status = "revoked"
               /\ lists' = lists
               /\ tasks' = tasks
         /\ (req'[r].resp.message = "Invitation expired" /\ req[r].resp # req'[r].resp)
            => req[r].pc = "revokeExpired"]_vars

\* an invite created 31 days ago was answered 'expired' and is revoked
C7_Witness ==
    \E r \in Requests :
        /\ req[r].resp = [code |-> 410, message |-> "Invitation expired"]
        /\ now - InviteOf(r).createdAt >= 31 * DaySeconds
        /\ StatusOfInvite(InviteOf(r).id) = "revoked"

\* C8: when the caller of the redemption of a pending invite is signed in,
\* the source list exists and the caller's email, lower-cased and trimmed,
\* differs from the invite's, the request is answered 403, the store is left
\* as it is and the invite is still pending.
C8_WrongAccountForbidden ==
    [][\A r \in Requests :
         ( /\ FindsSourceList(r)
           /\ trim(toLowerCase(IF req[r].ctx.user = NULL THEN <<>>
                               ELSE req[r].ctx.user.email))
                # trim(toLowerCase(req[r].invite.email)) )
         => /\ req'[r].pc = "done"
            /\ req'[r].resp.code = 403
            /\ req'[r].clonedList = NULL
            /\ store' = store
            /\ tx' = tx
            /\ \A i \in invites' :
                 i.id = req[r].invite.id => i.status = "pending"]_vars

\* a wrong account was answered 403 and the invited account redeemed the
\* same token afterwards
C8_Witness ==
    \E o, r \in Requests :
        /\ o < r
        /\ Code(o) = 403
        /\ Code(r) = 200
        /\ InviteOf(r).id = InviteOf(o).id

\* C9: the redemption of a pending invite by a caller who is not signed in
\* is answered 401 at once and leaves the store as it is, the invite
\* pending, whether or not the source list exists and whatever the invite's
\* age.
C9_SignInRequiredChangesNothing ==
    [][\A r \in Requests, token \in Tokens, ctx \in Contexts :
         ( /\ getUserId(ctx) = ""
           /\ \E i \in invites : i.token = token /\ i.status = "pending"
           /\ LooksUp(r, token, ctx) )
         => /\ req'[r].pc = "done"
            /\ req'[r].resp = [code |-> 401, message |-> "Sign in required"]
            /\ req'[r].clonedList = NULL
            /\ store' = store
            /\ tx' = tx
            /\ \E i \in invites' : i.token = token /\ i.status = "pending"]_vars

\* a redemption was answered 401 and the same token was redeemed after the
\* sign-in
C9_Witness ==
    \E o, r \in Requests :
        /\ o < r
        /\ Code(o) = 401
        /\ Code(r) = 200
        /\ InviteOf(r).id = InviteOf(o).id

\* C10: when a signed-in caller redeems a pending invite whose source list
\* is gone, the invite becomes revoked, the answer is 410 'list unavailable'
\* and no List or Task is created; from then on the invite stays revoked
\* and every redemption of its token is answered 410 'revoked'.
C10_UnavailableInviteStaysRevoked ==
    [][\A r \in Requests :
         /\ (req[r].pc = "revokeUnavailable" /\ req'[r] # req[r])
            => /\ req'[r].resp = [code |-> 410, message |-> "List unavailable"]
               /\ req'[r].clonedList = NULL
               /\ lists' = lists
               /\ tasks' = tasks
               /\ \A i \in invites' :
                    i.id = req[r].invite.id => i.status = "revoked"
         /\ (req[r].resp = [code |-> 410, message |-> "List unavailable"])
            => /\ \A i \in invites' :
                    i.id = req[r].invite.id => i.status = "revoked"
               /\ \A o \in Requests, token \in Tokens, ctx \in Contexts :
                    (token = req[r].invite.token /\ LooksUp(o, token, ctx))
                    => req'[o].resp = [code |-> 410, message |-> "Invitation revoked"]]_vars

\* the decision of the redemption of a token by a caller, as the ordered
\* list of cases gives it: the answer and the status the invite has afterwards
\* ("none" when no invite has the token)
ReferenceDecision(token, ctx) ==
    IF token = ""
      THEN [code |-> 400, message |-> "Missing invitation", status |-> "none"]
    ELSE IF ~\E i \in invites : i.token = token
      THEN [code |-> 404, message |-> "Invitation not found", status |-> "none"]
    ELSE LET i == CHOOSE i \in invites : i.token = token
             callerEmail == IF ctx.user = NULL THEN <<>> ELSE ctx.user.email
         IN  IF i.status = "revoked"
               THEN [code |-> 410, message |-> "Invitation revoked",
                     status |-> "revoked"]
             ELSE IF i.status = "accepted"
               THEN [code |-> 409, message |-> "Invitation already accepted",
                     status |-> "accepted"]
             ELSE IF getUserId(ctx) = ""
               THEN [code |-> 401, message |-> "Sign in required",
                     status |-> "pending"]
             ELSE IF ~\E l \in lists : l.id = i.listId
               THEN [code |-> 410, message |-> "List unavailable",
                     status |-> "revoked"]
             ELSE IF trim(toLowerCase(callerEmail)) # trim(toLowerCase(i.email))
               THEN [code |-> 403, message |-> "Sign in with the invited email",
                     status |-> "pending"]
             ELSE IF now - i.createdAt > 30 * DaySeconds
               THEN [code |-> 410, message |-> "Invitation expired",
                     status |-> "revoked"]
             ELSE [code |-> 200, message |-> "Invitation accepted",
                   status |-> "accepted"]

\* the answer of request r after the step and the stored status of the
\* invite with the token are those of the decision d
AnsweredAs(r, token, d) ==
    /\ req'[r].resp = [code |-> d.code, message |-> d.message]
    /\ \A i \in invites' : i.token = token => i.status = d.status
    /\ d.status = "none" => ~\E i \in invites' : i.token = token

\* C11: the outcome of a redemption is that of the first case that holds in
\* the order missing token (400), unknown token (404), revoked (410),
\* accepted (409), not signed in (401), source list missing (410, revoked),
\* email mismatch (403), older than 30 days (410, revoked), otherwise clone
\* and accept (200): whatever the token, the invite, the caller and the
\* store, a request that is answered (its transaction not having failed) is
\* answered as that case says and leaves the invite in that case's status,
\* and a request goes on to the next step only when no earlier case holds.
C11_OutcomeIsFirstCaseInOrder ==
    [][\A r \in Requests :
         /\ \A token \in Tokens, ctx \in Contexts :
              LooksUp(r, token, ctx) =>
                IF req'[r].pc = "done"
                  THEN AnsweredAs(r, token, ReferenceDecision(token, ctx))
                  ELSE ReferenceDecision(token, ctx).code \in {410, 403, 200}
                       /\ ReferenceDecision(token, ctx).message # "Invitation revoked"
         /\ (InFlight(r) /\ req'[r].pc = "done" /\ req'[r].resp.code # 500)
              => AnsweredAs(r, req[r].token,
                            ReferenceDecision(req[r].token, req[r].ctx))
         /\ (InFlight(r) /\ req'[r].pc \in TxPcs)
              => ReferenceDecision(req[r].token, req[r].ctx).code = 200]_vars

\* a signed-in caller with another email presented an invite older than 30
\* days: the answer was 403, the earlier case, and the invite is still pending
C11_Witness ==
    \E r \in Requests :
        /\ Code(r) = 403
        /\ now - InviteOf(r).createdAt > 30 * DaySeconds
        /\ StatusOfInvite(InviteOf(r).id) = "pending"
        /\ \E l \in lists : l.id = InviteOf(r).listId

----------------------------------------------------------------------------
(* Properties of the list and task handlers *)

\* the positions of the rows are exactly 0..n-1 for n rows
Dense(rows) ==
    { r.position : r \in rows } = 0..(Cardinality(rows) - 1)

ListsOfUser(rows, userId) == { l \in rows : l.userId = userId }

TasksInScope(rows, userId, listId) ==
    { t \in rows : t.userId = userId /\ t.listId = listId }

\* the step in which request a, at the given place, is answered
Answered(a, pc) == api[a].pc = pc /\ api'[a].pc = "done"

\* C12: the deletion of a list owned by the caller removes the List row and
\* every Task whose listId is that list in one step, so that afterwards no
\* Task row references the deleted list; when the operation fails, the List
\* rows and the Task rows are as they were.
C12_DeleteListRemovesItsTasks ==
    [][\A a \in ApiRequests :
         Answered(a, "deleteListTx") =>
           IF api'[a].resp.code = 200
             THEN /\ ~\E l \in lists' : l.id = api[a].input.id
                  /\ ~\E t \in tasks' : t.listId = api[a].input.id
                  /\ \A l \in lists : l.id # api[a].input.id => l \in lists'
                  /\ \A t \in tasks : t.listId # api[a].input.id => t \in tasks'
             ELSE lists' = lists /\ tasks' = tasks]_vars

\* the index (from 0) of the last place of id in the sequence ids
IndexIn(ids, id) ==
    (CHOOSE i \in DOMAIN ids :
       ids[i] = id /\ \A j \in DOMAIN ids : j > i => ids[j] # id) - 1

\* C13: when a reorder request (of lists, or of the tasks of a list) has
\* passed validation and is applied, every submitted id has the position of
\* its index in the submitted sequence, and the positions of all rows in
\* the scope (the caller's lists, or the caller's tasks of the target list)
\* are exactly 0..n-1, pairwise distinct.
C13_ReorderGivesIndexAndDense ==
    [][\A a \in ApiRequests :
         /\ (Answered(a, "reorderListsTx") /\ api'[a].resp.code = 200)
              => /\ \A l \in lists' :
                      l.id \in Range(api[a].input.ids)
                        => l.position = IndexIn(api[a].input.ids, l.id)
                 /\ Dense(ListsOfUser(lists', api[a].userId))
         /\ (Answered(a, "reorderTasksTx") /\ api'[a].resp.code = 200)
              => /\ \A t \in tasks' :
                      t.id \in Range(api[a].input.ids)
                        => t.position = IndexIn(api[a].input.ids, t.id)
                 /\ Dense(TasksInScope(tasks', api[a].userId,
                                       api[a].input.listId))]_vars

\* C14: after any sequence of list operations the positions of each user's
\* lists are exactly 0..n-1 for a user owning n lists, with no gap and no
\* duplicate.
C14_ListPositionsDense ==
    \A userId \in { l.userId : l \in lists } :
        Dense(ListsOfUser(lists, userId))

\* C15: after any sequence of task operations the positions of the tasks of
\* each (userId, listId) scope are exactly 0..n-1 for n tasks, with no gap
\* and no duplicate.
C15_TaskPositionsDense ==
    \A t \in tasks : Dense(TasksInScope(tasks, t.userId, t.listId))

\* row is last among rows in the (position, id) order
IsLast(row, rows) == \A other \in rows \ {row} : Before(other, row)

\* every request so far went to a route that creates, deletes or reorders
OnlyCreatesDeletesReorders ==
    \A o \in ApiRequests :
        api[o].op \in { "", "POST /lists", "POST /", "DELETE /lists/:id",
                        "DELETE /:id", "DELETE /lists/:id/completed",
                        "PUT /lists/order", "PUT /order" }

\* C19: a list that is created gets the number of lists its user owns as
\* its position, a task that is created the number of tasks of its user in
\* the target list, and the created row is the last of its scope in the
\* (position, id) order, after any creates, deletes and reorders before it.
C19_CreatedRowIsAppended ==
    [][\A a \in ApiRequests :
         OnlyCreatesDeletesReorders =>
         /\ (Answered(a, "createList") /\ api'[a].resp.code = 201)
              => \E created \in lists' \ lists :
                   /\ lists' = lists \cup {created}
                   /\ created.position =
                        Cardinality(ListsOfUser(lists, api[a].userId))
                   /\ IsLast(created, ListsOfUser(lists', api[a].userId))
         /\ (Answered(a, "createTask") /\ api'[a].resp.code = 201)
              => \E created \in tasks' \ tasks :
                   /\ tasks' = tasks \cup {created}
                   /\ created.position =
                        Cardinality(TasksInScope(tasks, api[a].userId,
                                                 api[a].input.listId))
                   /\ IsLast(created, TasksInScope(tasks', api[a].userId,
                                                   api[a].input.listId))]_vars

\* the position part of C19 alone
CreatedPositionIsCount ==
    [][\A a \in ApiRequests :
         /\ (Answered(a, "createList") /\ api'[a].resp.code = 201)
              => \E created \in lists' \ lists :
                   created.position =
                     Cardinality(ListsOfUser(lists, api[a].userId))
         /\ (Answered(a, "createTask") /\ api'[a].resp.code = 201)
              => \E created \in tasks' \ tasks :
                   created.position =
                     Cardinality(TasksInScope(tasks, api[a].userId,
                                              api[a].input.listId))]_vars

----------------------------------------------------------------------------
(* Properties of the share handler and of the router *)

\* the step in which request a arrives at the share handler with the given
\* context, list id and body
SharesList(a, ctx, rawId, body) ==
    /\ api[a].pc = "idle"
    /\ api'[a].pc # "idle"
    /\ ShareFindList(a, ctx, rawId, body)

\* s is local-part @ domain-with-dot and holds no whitespace
MatchesEmailPattern(s) ==
    \E at \in DOMAIN s, dot \in DOMAIN s :
        /\ s[at] = "@" /\ s[dot] = "."
        /\ 1 < at /\ at + 1 < dot /\ dot < Len(s)
        /\ \A i \in DOMAIN s : ~IsSpace(s[i]) /\ (s[i] = "@" => i = at)

\* the caller is signed in and owns the list the path names
OwnsNamedList(ctx, rawId) ==
    \E l \in lists :
        /\ getUserId(ctx) # ""
        /\ l.userId = getUserId(ctx)
        /\ DecimalString(l.id) = rawId

\* C16: when the owner of a list shares it with a valid email and no mailer
\* is configured, the request (unless the insert of the invite throws) is
\* answered 501, not with a success, no mail is sent, and exactly one new
\* invite row, with status pending, is in the store.
C16_NoMailerUnavailableInviteKept ==
    [][\A a \in ApiRequests :
         /\ \A ctx \in ApiContexts, rawId \in RawIds, body \in ShareBodies :
              ( /\ SharesList(a, ctx, rawId, body)
                /\ OwnsNamedList(ctx, rawId)
                /\ "email" \in DOMAIN body
                /\ MatchesEmailPattern(trim(body.email)) )
              => api'[a].pc = "shareCreateInvite" /\ invites' = invites
         /\ ( /\ api[a].pc = "shareCreateInvite"
              /\ api'[a] # api[a]
              /\ api'[a].resp.code # 500
              /\ mailer \in {"undefined", "object"} )
              => /\ api'[a].pc = "done"
                 /\ api'[a].resp =
                      [code |-> 501, message |-> "Email delivery is not configured"]
                 /\ api'[a].sends = 0
                 /\ invites \subseteq invites'
                 /\ Cardinality(invites' \ invites) = 1
                 /\ \A i \in invites' \ invites :
                      i.status = "pending" /\ i.id = api'[a].created]_vars

\* without a mailer a share of the owner's list was answered 501 and its
\* invite is in the store, pending
C16_Witness ==
    \E a \in ApiRequests :
        /\ mailer = "undefined"
        /\ api[a].resp.code = 501
        /\ \E i \in invites :
             i.id = api[a].created /\ i.status = "pending" /\ i.inviterId = OWNER

\* C17: when the call of the mailer throws, the request is answered with
\* the delivery failure (500, not a success), the mailer has been called
\* once and is not called again, and the invite row the request created is
\* still in the store with status pending.
C17_MailerThrowsFailureInviteKept ==
    [][\A a \in ApiRequests :
         ( /\ api[a].pc = "shareSendMail"
           /\ api'[a] # api[a]
           /\ api'[a].resp.code # 202 )
         => /\ api'[a].pc = "done"
            /\ api'[a].resp =
                 [code |-> 500, message |-> "Failed to send invitation email"]
            /\ api'[a].sends = 1
            /\ invites' = invites
            /\ \E i \in invites' :
                 i.id = api[a].created /\ i.status = "pending"]_vars

\* a share was answered with the delivery failure after one call of the
\* mailer, and its invite is in the store, pending
C17_Witness ==
    \E a \in ApiRequests :
        /\ api[a].resp = [code |-> 500, message |-> "Failed to send invitation email"]
        /\ api[a].sends = 1
        /\ \E i \in invites : i.id = api[a].created /\ i.status = "pending"

\* C18: a share request creates an invite row only if the requester owns
\* the target list and the email matches the pattern; a request that fails
\* one of the checks (or is not signed in, or names no numeric list id) is
\* answered with an error, creates no invite and calls no mailer.  Every
\* invite that is created is pending, has role editor, the requested list,
\* the requester as inviter and the trimmed email.
C18_InviteOnlyForOwnerAndValidEmail ==
    [][\A a \in ApiRequests :
         /\ \A ctx \in ApiContexts, rawId \in RawIds, body \in ShareBodies :
              SharesList(a, ctx, rawId, body) =>
                IF /\ OwnsNamedList(ctx, rawId)
                   /\ "email" \in DOMAIN body
                   /\ MatchesEmailPattern(trim(body.email))
                  THEN /\ api'[a].pc = "shareCreateInvite"
                       /\ api'[a].userId = getUserId(ctx)
                       /\ DecimalString(api'[a].input.id) = rawId
                       /\ api'[a].input.email = trim(body.email)
                       /\ invites' = invites
                  ELSE /\ api'[a].pc = "done"
                       /\ api'[a].resp.code \in {400, 401, 404}
                       /\ api'[a].sends = 0
                       /\ api'[a].created = 0
                       /\ invites' = invites
         /\ invites \subseteq invites'
         /\ \A i \in invites' \ invites :
              \E c \in ApiRequests :
                /\ api[c].pc = "shareCreateInvite"
                /\ invites' = invites \cup {i}
                /\ i.status = "pending"
                /\ i.role = "editor"
                /\ i.listId = api[c].input.id
                /\ i.inviterId = api[c].userId
                /\ i.email = api[c].input.email
                /\ \E l \in lists : l.id = i.listId /\ l.userId = i.inviterId
         /\ api'[a].sends > api[a].sends => api[a].created # 0]_vars

\* a share of another user's list was answered 404 and created nothing,
\* and a share of the caller's own list created an invite with the trimmed
\* email
C18_Witness ==
    \E a, c \in ApiRequests :
        /\ api[a].resp.code = 404
        /\ api[a].created = 0
        /\ api[c].resp.code = 202
        /\ \E i \in invites :
             /\ i.id = api[c].created
             /\ i.email = <<"b", "@", "x", ".", "y">>
             /\ \E l \in lists : l.id = i.listId /\ l.userId = i.inviterId

\* C20: a PUT request of a signed-in caller to the lists order path, or to
\* the tasks order path, with a valid ordered id sequence is handled by the
\* reorder route and goes on to rewrite the positions; it is not answered
\* by the update route with :id registered before it.
C20_OrderPathReachesReorder ==
    [][\A a \in ApiRequests, call \in HttpCalls, ctx \in ApiContexts :
         ( /\ call.method = "PUT"
           /\ call.path \in { <<SegLists, SegOrder>>, <<SegOrder>> }
           /\ getUserId(ctx) # ""
           /\ api[a].pc = "idle"
           /\ api'[a].pc # "idle"
           /\ HttpRequest(a, call.method, call.path, ctx, call.body) )
         => /\ api'[a].op \in { "PUT /lists/order", "PUT /order" }
            /\ api'[a].pc \in { "reorderListsTx", "reorderTasksTx" }]_vars

----------------------------------------------------------------------------
(* Properties of the checks of the list and task handlers *)

\* request a arrives in this step and is handled by route op
ArrivesAt(a, op) ==
    /\ api[a].pc = "idle"
    /\ api'[a].pc # "idle"
    /\ api'[a].op = op

\* request a is answered with the code in this step and no List or Task row
\* changes
Refused(a, code) ==
    /\ api'[a].pc = "done"
    /\ api'[a].resp.code = code
    /\ lists' = lists
    /\ tasks' = tasks

\* the string spells a number
WellFormedId(v) == \A i \in DOMAIN trim(v) : trim(v)[i] \in Range(DigitChars)

OwnsList(userId, id) == \E l \in lists : l.id = id /\ l.userId = userId

OwnsTask(userId, id) == \E t \in tasks : t.id = id /\ t.userId = userId

\* the field of the body is present and every entry of it spells a number
WellFormedOrder(body, field) ==
    /\ field \in DOMAIN body
    /\ \A i \in DOMAIN body[field] : WellFormedId(body[field][i])

\* the field of the body is present and spells a number
WellFormedField(body, field) ==
    field \in DOMAIN body /\ WellFormedId(body[field])

\* what the handlers are to answer: 404 when every field is well formed and
\* some id names no row of the caller, 400 when some field is malformed or
\* missing and no id that is well formed names a row that is missing or
\* another user's
Checked(a, wellFormed, allOwned, someWellFormedNotOwned) ==
    /\ (wellFormed /\ ~allOwned) => Refused(a, 404)
    /\ (~wellFormed /\ ~someWellFormedNotOwned) => Refused(a, 400)

\* C21: for a signed-in caller, a list or task operation that names an id
\* which does not exist or belongs to another user is answered 404 and
\* changes no row, and one with a malformed or missing field is answered
\* 400 and changes no row: list update, list delete, delete-completed, task
\* create, task update, task delete, list reorder and task reorder.
C21_MissingIdNotFoundMalformedRejected ==
    [][\A a \in ApiRequests, ctx \in ApiContexts :
         LET userId == getUserId(ctx)
         IN  userId # "" =>
           /\ \A rawId \in RawIds :
                LET ok == WellFormedId(rawId)
                    list == ok /\ OwnsList(userId, Number(rawId))
                    task == ok /\ OwnsTask(userId, Number(rawId))
                IN  /\ \A body \in ListUpdateBodies :
                         ( /\ ArrivesAt(a, "PUT /lists/:id")
                           /\ UpdateListFind(a, ctx, rawId, body) )
                         => Checked(a, ok, list, ok /\ ~list)
                    /\ ( /\ ArrivesAt(a, "DELETE /lists/:id")
                         /\ DeleteListFind(a, ctx, rawId) )
                       => Checked(a, ok, list, ok /\ ~list)
                    /\ ( /\ ArrivesAt(a, "DELETE /lists/:id/completed")
                         /\ DeleteCompletedFindList(a, ctx, rawId) )
                       => Checked(a, ok, list, ok /\ ~list)
                    /\ ( /\ ArrivesAt(a, "DELETE /:id")
                         /\ DeleteTaskFind(a, ctx, rawId) )
                       => Checked(a, ok, task, ok /\ ~task)
                    /\ \A body \in TaskUpdateBodies :
                         ( /\ ArrivesAt(a, "PUT /:id")
                           /\ UpdateTaskFind(a, ctx, rawId, body) )
                         => LET listOk == "listId" \in DOMAIN body
                                            => WellFormedId(body.listId)
                                posOk == "position" \in DOMAIN body
                                           => WellFormedId(body.position)
                                foreign == /\ WellFormedField(body, "listId")
                                           /\ ~OwnsList(userId, Number(body.listId))
                            IN  Checked(a, ok /\ listOk /\ posOk,
                                        task /\ ~foreign,
                                        (ok /\ ~task) \/ foreign)
           /\ \A body \in TaskCreateBodies :
                ( /\ ArrivesAt(a, "POST /")
                  /\ CreateTaskFindList(a, ctx, body) )
                => LET listOk == WellFormedField(body, "listId")
                       titleOk == "title" \in DOMAIN body /\ body.title # ""
                       owned == listOk /\ OwnsList(userId, Number(body.listId))
                   IN  Checked(a, listOk /\ titleOk, owned, listOk /\ ~owned)
           /\ \A body \in ListOrderBodies :
                ( /\ ArrivesAt(a, "PUT /lists/order")
                  /\ ReorderListsFind(a, ctx, body) )
                => LET ok == WellFormedOrder(body, "listOrder")
                       owned == \A i \in DOMAIN body.listOrder :
                                  OwnsList(userId, Number(body.listOrder[i]))
                   IN  Checked(a, ok, ok /\ owned, ok /\ ~owned)
           /\ \A body \in TaskOrderBodies :
                ( /\ ArrivesAt(a, "PUT /order")
                  /\ ReorderTasksFind(a, ctx, body) )
                => LET listOk == WellFormedField(body, "listId")
                       orderOk == WellFormedOrder(body, "taskOrder")
                       foreignList == listOk /\ ~OwnsList(userId, Number(body.listId))
                       foreignTask ==
                         /\ "taskOrder" \in DOMAIN body
                         /\ \E i \in DOMAIN body.taskOrder :
                              /\ WellFormedId(body.taskOrder[i])
                              /\ ~OwnsTask(userId, Number(body.taskOrder[i]))
                   IN  Checked(a, listOk /\ orderOk,
                               ~foreignList /\ ~foreignTask,
                               foreignList \/ foreignTask)]_vars

\* C22: after any sequence of list creates and list updates, no two List
\* rows of one user have the same slug.
C22_SlugUniquePerUser ==
    \A l \in lists, m \in lists :
        (l.userId = m.userId /\ l.slug = m.slug) => l.id = m.id

----------------------------------------------------------------------------
(* Properties of the invite tokens *)

\* C23: after any sequence of share requests no two invite rows have the
\* same token: a token identifies at most one invite.
C23_TokenIdentifiesOneInvite ==
    \A i \in invites, j \in invites : i.token = j.token => i = j

\* a share drew the token of the invite an earlier share had created: its
\* insert was refused and the store holds that one invite
C23_Witness ==
    \E a \in ApiRequests, c \in ApiRequests :
        /\ api[a].op = "POST /lists/:id/share"
        /\ api[a].resp.code = 500
        /\ api[a].created = 0
        /\ api[c].created # 0
        /\ Cardinality(invites) = 1

----------------------------------------------------------------------------
(* Properties of the clone under concurrent requests *)

\* C24: the tasks a redemption adds when its transaction commits are one
\* copy of every task the source list has at that moment, and no other: a
\* task of the source created, deleted or changed by its owner (or the
\* deletion of the source list) while the redemption runs is not reflected
\* stalely in the clone.
C24_CloneIsSourceAtCommit ==
    [][\A r \in Requests :
         Commits(r) =>
           LET sourceTasks == { t \in tasks : t.listId = req[r].invite.listId }
               newTasks == tasks' \ tasks
           IN  /\ Cardinality(newTasks) = Cardinality(sourceTasks)
               /\ \A t \in sourceTasks :
                    Cardinality({ c \in newTasks : CopyOf(c, t) }) = 1
               /\ \A c \in newTasks : \E t \in sourceTasks : CopyOf(c, t)]_vars

\* C25: two redemptions of different invites by one recipient, whose source
\* lists have the same candidate slug, never leave the recipient with two
\* cloned lists of the same slug, however the two requests interleave.
C25_ConcurrentClonesGetDistinctSlugs ==
    \A r \in Requests, o \in Requests :
        ( /\ r # o
          /\ Code(r) = 200
          /\ Code(o) = 200
          /\ InviteOf(r).id # InviteOf(o).id
          /\ req[r].clonedList \in lists
          /\ req[o].clonedList \in lists
          /\ req[r].clonedList.userId = req[o].clonedList.userId )
        => req[r].clonedList.slug # req[o].clonedList.slug

----------------------------------------------------------------------------
(* Properties of concurrent reorders *)

\* the ids are each id of the set once
IsOrderOf(ids, S) ==
    /\ Len(ids) = Cardinality(S)
    /\ Range(ids) = S

\* the rows with the ids are at the indexes of the ids
ListsAtIndexes(rows, ids) ==
    \A i \in DOMAIN ids : \E l \in rows : l.id = ids[i] /\ l.position = i - 1

TasksAtIndexes(rows, listId, ids) ==
    \A i \in DOMAIN ids :
        \E t \in rows : t.id = ids[i] /\ t.position = i - 1 /\ t.listId = listId

\* when reorder handlers run side by side, each with the full set of the
\* scope's ids, the step in which a request's rewrite is applied leaves
\* every id at its index in that request's sequence, a rewrite that fails
\* changes nothing, and no other step changes a row
ReordersLastWriterWins ==
    [][/\ \A a \in ApiRequests :
            /\ ( /\ Answered(a, "reorderListsTx")
                 /\ IsOrderOf(api[a].input.ids,
                              { l.id : l \in ListsOfUser(lists, api[a].userId) }) )
               => \/ /\ api'[a].resp.code = 200
                     /\ ListsAtIndexes(lists', api[a].input.ids)
                  \/ /\ api'[a].resp.code = 500
                     /\ lists' = lists
            /\ ( /\ Answered(a, "reorderTasksTx")
                 /\ IsOrderOf(api[a].input.ids,
                              { t.id : t \in TasksInScope(tasks, api[a].userId,
                                                         api[a].input.listId) }) )
               => \/ /\ api'[a].resp.code = 200
                     /\ TasksAtIndexes(tasks', api[a].input.listId,
                                       api[a].input.ids)
                  \/ /\ api'[a].resp.code = 500
                     /\ tasks' = tasks
       /\ (lists' # lists \/ tasks' # tasks)
          => \E a \in ApiRequests :
               /\ api[a].pc \in {"reorderListsTx", "reorderTasksTx"}
               /\ api'[a].resp.code = 200]_vars

\* C26: of overlapping PUT requests to an order path by the owner of the
\* scope, each carrying the full set of the scope's ids, the last writer
\* wins: when such a request is answered (other than by a 500), the rows
\* are at the indexes of its sequence, so the final positions are those of
\* one of the submitted sequences and never a mixture or something else.
C26_ConcurrentReordersLastWriterWins ==
    [][\A a \in ApiRequests, ctx \in ApiContexts :
         /\ \A body \in FullListOrders :
              ( /\ api[a].pc = "idle"
                /\ api'[a].pc = "done"
                /\ api'[a].resp.code # 500
                /\ IsOrderOf(NumberAll(body.listOrder),
                             { l.id : l \in ListsOfUser(lists, getUserId(ctx)) })
                /\ HttpRequest(a, "PUT", <<SegLists, SegOrder>>, ctx, body) )
              => ListsAtIndexes(lists', NumberAll(body.listOrder))
         /\ \A body \in FullTaskOrders :
              ( /\ api[a].pc = "idle"
                /\ api'[a].pc = "done"
                /\ api'[a].resp.code # 500
                /\ IsOrderOf(NumberAll(body.taskOrder),
                             { t.id : t \in TasksInScope(tasks, getUserId(ctx),
                                                        Number(body.listId)) })
                /\ HttpRequest(a, "PUT", <<SegOrder>>, ctx, body) )
              => TasksAtIndexes(tasks', Number(body.listId),
                                NumberAll(body.taskOrder))
         /\ ( /\ Answered(a, "reorderListsTx")
              /\ api'[a].resp.code # 500
              /\ IsOrderOf(api[a].input.ids,
                           { l.id : l \in ListsOfUser(lists, api[a].userId) }) )
            => ListsAtIndexes(lists', api[a].input.ids)
         /\ ( /\ Answered(a, "reorderTasksTx")
              /\ api'[a].resp.code # 500
              /\ IsOrderOf(api[a].input.ids,
                           { t.id : t \in TasksInScope(tasks, api[a].userId,
                                                      api[a].input.listId) }) )
            => TasksAtIndexes(tasks', api[a].input.listId, api[a].input.ids)]_vars

----------------------------------------------------------------------------
(* Properties of the rows of the source and of the clone *)

ListsOf(rows, userId) == { l \in rows : l.userId = userId }

TasksOf(rows, userId) == { t \in rows : t.userId = userId }

\* C27: no step of a redemption, whether it ends in a clone or in a
\* rejection, changes or removes a List or Task row that existed before the
\* step (so the source list and the source tasks stay as they were), and
\* after the clone no step of a list or task request changes a row of an
\* account other than the caller's: a request of the inviter leaves the
\* cloned list and tasks as they were, a request of the recipient the
\* source list and tasks.
C27_CloneAndSourceIndependent ==
    [][/\ (req' # req) => (lists \subseteq lists' /\ tasks \subseteq tasks')
       /\ \A a \in ApiRequests :
            (api'[a] # api[a]) =>
              IF api[a].pc = "idle"
                THEN lists' = lists /\ tasks' = tasks
                ELSE \A u \in {OWNER, RECIPIENT} \ {api[a].userId} :
                       /\ ListsOf(lists', u) = ListsOf(lists, u)
                       /\ TasksOf(tasks', u) = TasksOf(tasks, u)]_vars

\* the recipient has moved the cloned tasks into the source list and the
\* inviter has then deleted the source list: the cloned tasks are still
\* there, the source tasks are gone
C27_Witness ==
    /\ \E r \in Requests : Code(r) = 200 /\ req[r].clonedList \in lists
    /\ api[1].op = "PUT /order" /\ api[1].resp.code = 200
    /\ api[2].op = "DELETE /lists/:id" /\ api[2].resp.code = 200
    /\ ListsOf(lists, OWNER) = {}
    /\ TasksOf(tasks, OWNER) = {}
    /\ Cardinality({ t \in TasksOf(tasks, RECIPIENT) : t.listId = 1 }) = 2

----------------------------------------------------------------------------
(* Properties of the candidate slug *)

\* every leading and every trailing hyphen goes
RECURSIVE TrimHyphens(_)
TrimHyphens(s) ==
    IF s # <<>> /\ Head(s) = "-" THEN TrimHyphens(Tail(s))
    ELSE IF s # <<>> /\ s[Len(s)] = "-"
      THEN TrimHyphens(SubSeq(s, 1, Len(s) - 1))
      ELSE s

\* the name lower-cased, each whitespace run made a hyphen, the characters
\* outside [a-z0-9-] removed, repeated hyphens collapsed, the hyphens at
\* the ends trimmed
SlugWithOthersRemoved(name) ==
    TrimHyphens(CollapseHyphens(SelectSeq(ReplaceSpaceRuns(toLowerCase(name)),
                                          IsSlugChar)))

\* C28: the candidate slug of a clone is the source list's slug when that
\* is not empty; otherwise it is the source name lower-cased, with each
\* whitespace run replaced by a hyphen, every character outside [a-z0-9-]
\* removed, repeated hyphens collapsed and the hyphens at the ends
\* trimmed, or the word list when nothing is left.
C28_CandidateSlugFromSlugOrName ==
    [][\A r \in Requests :
         (req[r].pc = "findTasks" /\ req'[r].pc = "txCount") =>
           LET source == req[r].sourceList
           IN  req'[r].baseSlug =
                 IF source.slug # <<>> THEN source.slug
                 ELSE IF SlugWithOthersRemoved(source.name) # <<>>
                   THEN SlugWithOthersRemoved(source.name)
                 ELSE <<"l","i","s","t">>]_vars

----------------------------------------------------------------------------
(* Properties of the list a task is attached to *)

\* C29: the listId of every Task row is the id of an existing List row
\* owned by the user who owns the task.
C29_TaskListExistsAndIsOwners ==
    \A t \in tasks :
        \E l \in lists : l.id = t.listId /\ l.userId = t.userId

----------------------------------------------------------------------------
(* Properties of the separation of the accounts *)

\* the rows a step creates, changes or removes
Touched(before, after) == (before \ after) \cup (after \ before)

\* a step of a list or task request creates, changes and removes only rows
\* of the caller and returns only rows of the caller; a step of a
\* redemption keeps every existing List and Task row, creates only rows of
\* the redeeming user and changes nothing of an invite but its status
WritesStayWithCaller ==
    /\ \A a \in ApiRequests :
         /\ (api[a].pc = "idle" /\ api'[a] # api[a])
            => lists' = lists /\ tasks' = tasks
         /\ (api[a].pc # "idle" /\ api'[a] # api[a])
            => \A row \in Touched(lists, lists') \cup Touched(tasks, tasks') :
                 row.userId = api[a].userId
         /\ \A ctx \in ApiContexts, op \in {"GET /lists", "GET /"} :
              (ReadRows(a, ctx, op) /\ api'[a].resp.code = 200)
              => \A row \in api'[a].found.lists \cup api'[a].found.tasks :
                   row.userId = getUserId(ctx)
    /\ \A r \in Requests :
         (req'[r] # req[r]) =>
           /\ lists \subseteq lists'
           /\ tasks \subseteq tasks'
           /\ \A row \in (lists' \ lists) \cup (tasks' \ tasks) :
                row.userId = getUserId(req[r].ctx)
           /\ \A i \in invites' :
                \E j \in invites : [i EXCEPT !.status = j.status] = j

\* the list and the tasks a redemption has read are the inviter's
ReadsInviterOnly ==
    \A r \in Requests :
        (req'[r] # req[r]) =>
          /\ req'[r].sourceList # NULL
             => req'[r].sourceList.userId = req'[r].invite.inviterId
          /\ \A i \in DOMAIN req'[r].tasksToClone :
               req'[r].tasksToClone[i].userId = req'[r].invite.inviterId

\* the part of the isolation that is about writes and returned rows
RowsWrittenAndReturnedAreCallers == [][WritesStayWithCaller]_vars

\* C30: a step of a list or task request of caller U creates, changes and
\* removes only List and Task rows whose userId is U, and the rows a
\* reading request returns all have userId U; a redemption reads only the
\* list and the tasks of the inviter, keeps every existing List and Task
\* row as it is, creates only rows owned by the redeeming user, and changes
\* nothing of an invite but its status.
C30_UserIsolation == [][WritesStayWithCaller /\ ReadsInviterOnly]_vars

----------------------------------------------------------------------------
(* Properties of the two routers *)

\* a step of a handler of the API router after its first await
ApiStep(a) ==
    \/ CreateListCreate(a) \/ UpdateListUpdate(a)
    \/ DeleteListTransaction(a) \/ DeleteListTransactionFails(a)
    \/ ReorderListsTransaction(a) \/ ReorderListsTransactionFails(a)
    \/ CreateTaskCount(a) \/ CreateTaskCreate(a) \/ UpdateTaskUpdate(a)
    \/ DeleteTaskDelete(a)
    \/ ReorderTasksTransaction(a) \/ ReorderTasksTransactionFails(a)
    \/ DeleteCompletedDeleteMany(a)

\* a step of a handler of the web router after its first await
WebStep(a) == WebListStep(a) \/ WebTaskStep(a)

\* C31: from the same store, with the same caller and the same request, the
\* handler of the API router and the handler of the web router for the same
\* operation (list, create, update, delete, reorder of lists and of tasks,
\* delete-completed) take the same steps: every step of one, from the
\* checks of the request to the last write, is a step of the other with the
\* same status code and the same store afterwards; a step that ends in 500
\* leaves the lists and tasks as they were in both.
C31_WebAndApiHandlersAgree ==
    [][\A a \in ApiRequests :
         /\ \A ctx \in ApiContexts :
              /\ ReadRows(a, ctx, "GET /lists")
                 <=> WebListHandler(a, ctx, "GET /lists", <<>>, [other |-> TRUE])
              /\ ReadRows(a, ctx, "GET /")
                 <=> WebTaskHandler(a, ctx, "GET /", <<>>, [other |-> TRUE])
              /\ \A body \in ListCreateBodies :
                   CreateListCount(a, ctx, body)
                   <=> WebListHandler(a, ctx, "POST /lists", <<>>, body)
              /\ \A rawId \in RawIds, body \in ListUpdateBodies :
                   UpdateListFind(a, ctx, rawId, body)
                   <=> WebListHandler(a, ctx, "PUT /lists/:id", rawId, body)
              /\ \A rawId \in RawIds :
                   DeleteListFind(a, ctx, rawId)
                   <=> WebListHandler(a, ctx, "DELETE /lists/:id", rawId,
                                      [other |-> TRUE])
              /\ \A body \in ListOrderBodies :
                   ReorderListsFind(a, ctx, body)
                   <=> WebListHandler(a, ctx, "PUT /lists/order", <<>>, body)
              /\ \A body \in TaskCreateBodies :
                   CreateTaskFindList(a, ctx, body)
                   <=> WebTaskHandler(a, ctx, "POST /", <<>>, body)
              /\ \A rawId \in RawIds, body \in TaskUpdateBodies :
                   UpdateTaskFind(a, ctx, rawId, body)
                   <=> WebTaskHandler(a, ctx, "PUT /:id", rawId, body)
              /\ \A rawId \in RawIds :
                   DeleteTaskFind(a, ctx, rawId)
                   <=> WebTaskHandler(a, ctx, "DELETE /:id", rawId,
                                      [other |-> TRUE])
              /\ \A body \in TaskOrderBodies :
                   ReorderTasksFind(a, ctx, body)
                   <=> WebTaskHandler(a, ctx, "PUT /order", <<>>, body)
              /\ \A rawId \in RawIds :
                   DeleteCompletedFindList(a, ctx, rawId)
                   <=> WebTaskHandler(a, ctx, "DELETE /lists/:id/completed",
                                      rawId, [other |-> TRUE])
         /\ (ApiStep(a) /\ api'[a].resp.code # 500)
            <=> (WebStep(a) /\ api'[a].resp.code # 500)
         /\ ((ApiStep(a) \/ WebStep(a)) /\ api'[a].resp.code = 500)
            => (lists' = lists /\ tasks' = tasks)]_vars

\* OWNER's list 1 has been deleted while STRANGER's task 4 was attached to
\* it: the tasks of OWNER in the list are gone, task 4 is still there
C31_Witness ==
    /\ api[1].op = "DELETE /lists/:id"
    /\ api[1].resp.code = 200
    /\ \A l \in lists : l.id # 1
    /\ \E t \in tasks : t.id = 4 /\ t.listId = 1
    /\ \A t \in tasks : t.listId = 1 => t.userId = STRANGER

----------------------------------------------------------------------------
(* Termination of the redemption *)

\* the slugs request r has probed and found taken so far
SlugsProbed(r) ==
    IF req[r].suffix = 2 THEN {}
    ELSE {req[r].baseSlug}
           \cup { SuffixedSlug(req[r].baseSlug, k) : k \in 2..(req[r].suffix - 2) }

\* in the probe loop, after k conflicts: the slug probed next is the base
\* slug (k = 0) or the base slug with the suffix k+1, the k slugs found
\* taken are k different lists of the recipient, and the slug probed next
\* is none of them
ProbesAreBounded ==
    \A r \in Requests :
      req[r].pc = "txProbe" =>
        /\ req[r].uniqueSlug =
             IF req[r].suffix = 2 THEN req[r].baseSlug
             ELSE SuffixedSlug(req[r].baseSlug, req[r].suffix - 1)
        /\ Cardinality(SlugsProbed(r)) = req[r].suffix - 2
        /\ req[r].uniqueSlug \notin SlugsProbed(r)
        /\ req[r].suffix - 2 <= TxCountLists(r, getUserId(req[r].ctx))

\* C32: every redemption request that has arrived ends with a response, it
\* has a response exactly when it has ended and nothing follows the
\* response; the slug probe loop probes a different slug at every turn and
\* ends after at most n+1 probes when the recipient owns n lists
C32_RedemptionTerminates ==
    /\ \A r \in Requests : InFlight(r) ~> (req[r].pc = "done")
    /\ [](\A r \in Requests :
            (req[r].pc = "done") <=> (req[r].resp # NoResponse))
    /\ [][\A r \in Requests : req[r].pc = "done" => req'[r] = req[r]]_vars
    /\ []ProbesAreBounded

\* a request of a recipient who owns the lists g and g-2 has probed three
\* slugs, cloned the list as g-3 and answered 200
C32_Witness ==
    \E r \in Requests :
      /\ req[r].pc = "done"
      /\ Code(r) = 200
      /\ req[r].clonedList # NULL
      /\ req[r].clonedList.slug = SuffixedSlug(SlugG, 3)
      /\ \E l \in lists : l.userId = RECIPIENT /\ l.slug = SlugG
      /\ \E l \in lists : l.userId = RECIPIENT /\ l.slug = SuffixedSlug(SlugG, 2)

====
